---- MODULE Spec2Model ----
(***************************************************************************)
(* Lead-in / lead-out analysis pipeline: spreadsheet ingestion, merge into *)
(* one daily table, derived marketing metrics, period summaries/averages   *)
(* and lift between periods, with the memoised process_files entry point.  *)
(*                                                                         *)
(* Numbers.  A spreadsheet amount or count is an integer.  A Python float  *)
(* is modelled by the exact rational it approximates: [t, n, d] with       *)
(* t = "num" (n/d in lowest terms, d > 0), "nan" (0/0) or "inf".  The      *)
(* absent sentinel None of the derived metrics is t = "none".              *)
(***************************************************************************)
EXTENDS Integers, Sequences, FiniteSets, TLC

VARIABLES
    transaction_df,   \* per-date transaction aggregates handed to combine_data
    campaign_df,      \* per-date campaign aggregates handed to combine_data
    combined_data,    \* the daily table (combine_data / process_files result)
    out,              \* the result of the last Metrics Engine operation
    cache,            \* st.cache_data store of process_files: <<[key, value]>>
    session           \* the last process_files call and the calls since the last clear

vars == <<transaction_df, campaign_df, combined_data, out, cache, session>>

----------------------------------------------------------------------------
(* Bounds of the model *)

MaxDate == 3        \* calendar dates are 1..MaxDate
MaxRows == 2        \* rows of a daily table drawn in Init
MaxCalls == 4       \* process_files calls / cache clears in one behaviour
MaxOrderRows == 3   \* rows of a transaction export drawn in Init
MaxSourceRows == 2  \* rows of a campaign report drawn in Init
MaxPicks == 3       \* dates in one selection list

Dates == 1..MaxDate

----------------------------------------------------------------------------
(* Exact arithmetic standing for Python / numpy floats *)

Abs(x) == IF x < 0 THEN -x ELSE x

RECURSIVE GCD(_, _)
GCD(a, b) == IF b = 0 THEN a ELSE GCD(b, a % b)

NaN == [t |-> "nan", n |-> 0, d |-> 1]
None == [t |-> "none", n |-> 0, d |-> 1]
Inf(s) == [t |-> "inf", n |-> s, d |-> 1]

\* the rational n/d, d # 0, in lowest terms with a positive denominator
Num(n, d) ==
    LET g == GCD(Abs(n), Abs(d))
        s == IF d < 0 THEN -1 ELSE 1
    IN  [t |-> "num", n |-> (s * n) \div g, d |-> (s * d) \div g]

I(k) == [t |-> "num", n |-> k, d |-> 1]

IsNum(x) == x.t = "num"

Add(x, y) == IF IsNum(x) /\ IsNum(y) THEN Num(x.n * y.d + y.n * x.d, x.d * y.d) ELSE NaN
Sub(x, y) == IF IsNum(x) /\ IsNum(y) THEN Num(x.n * y.d - y.n * x.d, x.d * y.d) ELSE NaN
Mul(x, y) == IF IsNum(x) /\ IsNum(y) THEN Num(x.n * y.n, x.d * y.d) ELSE NaN

\* x / y on numpy scalars: 0/0 is nan and k/0 is +-inf (a warning, no exception)
Div(x, y) ==
    IF ~(IsNum(x) /\ IsNum(y)) THEN NaN
    ELSE IF y.n = 0 THEN (IF x.n = 0 THEN NaN ELSE Inf(IF x.n > 0 THEN 1 ELSE -1))
    ELSE Num(x.n * y.d, x.d * y.n)

\* comparisons with nan are False
Gt0(x) == (IsNum(x) /\ x.n > 0) \/ (x.t = "inf" /\ x.n > 0)
Lt0(x) == (IsNum(x) /\ x.n < 0) \/ (x.t = "inf" /\ x.n < 0)
Ne0(x) == ~(IsNum(x) /\ x.n = 0)

----------------------------------------------------------------------------
(* Data frames: a frame is a sequence of rows, a row a function from column *)
(* names to cells.  A cell is <<v>> (the value v) or <<>> (NaN / missing).  *)

TransactionColumns == {"date", "total_units", "revenue", "item_promotion_discount", "orders", "net_revenue"}
CampaignColumns == {"date", "impressions", "clicks", "campaign_spend", "campaign_orders", "campaign_sales"}

expected_columns ==
    <<"date", "orders", "total_units", "revenue", "item_promotion_discount", "net_revenue",
      "impressions", "clicks", "campaign_orders", "campaign_spend", "campaign_sales">>

Range(s) == {s[i] : i \in DOMAIN s}

Columns(df) == IF df = <<>> THEN {} ELSE DOMAIN df[1]

DateOf(row) == row["date"][1]

DatesOf(df) == {DateOf(df[i]) : i \in DOMAIN df}

RowsOn(df, date) == SelectSeq(df, LAMBDA r : DateOf(r) = date)

RECURSIVE SortSet(_)
SortSet(S) ==
    IF S = {} THEN <<>>
    ELSE LET m == CHOOSE x \in S : \A y \in S : x <= y
         IN  <<m>> \o SortSet(S \ {m})

\* df[col] = v : the column is created, or overwritten, in every row
WithColumn(df, col, v) ==
    [i \in DOMAIN df |-> [c \in (DOMAIN df[i]) \cup {col} |-> IF c = col THEN <<v>> ELSE df[i][c]]]

RECURSIVE WithColumns(_, _, _)
WithColumns(df, cols, v) ==
    IF cols = <<>> THEN df
    ELSE WithColumns(WithColumn(df, Head(cols), v), Tail(cols), v)

\* the fillna(0) step left out
fillna_skipped(df) == df

\* df.fillna(0)
fillna(df) ==
    [i \in DOMAIN df |-> [c \in DOMAIN df[i] |-> IF df[i][c] = <<>> THEN <<0>> ELSE df[i][c]]]

\* df[cols]
Project(df, cols) == [i \in DOMAIN df |-> [c \in Range(cols) |-> df[i][c]]]

----------------------------------------------------------------------------
(* Merger: DataProcessor.combine_data *)

\* one row of the outer join: l and r are <<>> (no match on that side) or <<row>>
JoinRow(date, l, r, lcols, rcols) ==
    [c \in lcols \cup rcols |->
        IF c = "date" THEN <<date>>
        ELSE IF c \in lcols THEN (IF l = <<>> THEN <<>> ELSE l[1][c])
        ELSE (IF r = <<>> THEN <<>> ELSE r[1][c])]

\* the rows of the outer join for one key: every left row paired with every right
\* row of that key, or the rows of the one side that has the key
JoinOn(left, right, date) ==
    LET L == RowsOn(left, date)
        R == RowsOn(right, date)
        lc == Columns(left)
        rc == Columns(right)
    IN  IF L = <<>> THEN [k \in 1..Len(R) |-> JoinRow(date, <<>>, <<R[k]>>, lc, rc)]
        ELSE IF R = <<>> THEN [k \in 1..Len(L) |-> JoinRow(date, <<L[k]>>, <<>>, lc, rc)]
        ELSE [k \in 1..(Len(L) * Len(R)) |->
                JoinRow(date, <<L[((k - 1) \div Len(R)) + 1]>>, <<R[((k - 1) % Len(R)) + 1]>>, lc, rc)]

RECURSIVE JoinKeys(_, _, _)
JoinKeys(left, right, keys) ==
    IF keys = <<>> THEN <<>>
    ELSE JoinOn(left, right, Head(keys)) \o JoinKeys(left, right, Tail(keys))

\* how='left' in place of how='outer': the keys of the transaction side only
MergeLeft(left, right) == JoinKeys(left, right, SortSet(DatesOf(left)))

\* pd.merge(left, right, on='date', how='outer'): union of the keys, sorted
MergeOuter(left, right) == JoinKeys(left, right, SortSet(DatesOf(left) \cup DatesOf(right)))

MissingColumns(df) == SelectSeq(expected_columns, LAMBDA c : c \notin Columns(df))

\* the early return for two empty inputs replaced by a row of zeros
combine_data_placeholder(t_df, c_df) ==
    IF t_df = <<>> /\ c_df = <<>>
    THEN <<[c \in Range(expected_columns) |-> <<0>>]>>
    ELSE LET merged ==
                 IF t_df # <<>> /\ c_df # <<>> THEN MergeOuter(t_df, c_df)
                 ELSE IF t_df = <<>>
                      THEN WithColumns(c_df, <<"orders", "total_units", "revenue",
                                                "item_promotion_discount", "net_revenue">>, 0)
                      ELSE WithColumns(t_df, <<"impressions", "clicks", "campaign_orders",
                                                "campaign_spend", "campaign_sales">>, 0)
             filled == fillna(merged)
             ensured == WithColumns(filled, MissingColumns(filled), 0)
         IN  Project(ensured, expected_columns)

combine_data(t_df, c_df) ==
    IF t_df = <<>> /\ c_df = <<>> THEN <<>>
    ELSE LET merged ==
                 IF t_df # <<>> /\ c_df # <<>> THEN MergeOuter(t_df, c_df)
                 ELSE IF t_df = <<>>
                      THEN WithColumns(c_df, <<"orders", "total_units", "revenue",
                                                "item_promotion_discount", "net_revenue">>, 0)
                      ELSE WithColumns(t_df, <<"impressions", "clicks", "campaign_orders",
                                                "campaign_spend", "campaign_sales">>, 0)
             filled == fillna(merged)
             ensured == WithColumns(filled, MissingColumns(filled), 0)
         IN  Project(ensured, expected_columns)

----------------------------------------------------------------------------
(* Per-date aggregates as the ingestor produces them *)

\* what process_transaction_data can return for one date: orders >= 1 rows of that
\* date, summed quantity / item-price / item-promotion-discount
TransPool ==
    { [orders |-> 1, total_units |-> 1, revenue |-> 2, item_promotion_discount |-> 0],
      [orders |-> 2, total_units |-> 3, revenue |-> 1, item_promotion_discount |-> 2] }

\* what process_campaign_data can return for one date
CampPool ==
    { [impressions |-> 2, clicks |-> 0, campaign_orders |-> 0, campaign_spend |-> 1, campaign_sales |-> 0],
      [impressions |-> 1, clicks |-> 1, campaign_orders |-> 1, campaign_spend |-> 0, campaign_sales |-> 2] }

\* the discount not taken off the revenue
TransRowGross(date, a) ==
    [c \in TransactionColumns |->
        IF c = "date" THEN <<date>>
        ELSE IF c = "net_revenue" THEN <<a.revenue>>
        ELSE <<a[c]>>]

TransRow(date, a) ==
    [c \in TransactionColumns |->
        IF c = "date" THEN <<date>>
        ELSE IF c = "net_revenue" THEN <<a.revenue - a.item_promotion_discount>>
        ELSE <<a[c]>>]

CampRow(date, a) == [c \in CampaignColumns |-> IF c = "date" THEN <<date>> ELSE <<a[c]>>]

\* frames with one row per date of S, in date order (groupby('date') output)
TransFrame(S, f) == LET ds == SortSet(S) IN [i \in 1..Len(ds) |-> TransRow(ds[i], f[ds[i]])]
CampFrame(S, f) == LET ds == SortSet(S) IN [i \in 1..Len(ds) |-> CampRow(ds[i], f[ds[i]])]

TransFrames == UNION { {TransFrame(S, f) : f \in [S -> TransPool]} : S \in SUBSET Dates }
CampFrames == UNION { {CampFrame(S, f) : f \in [S -> CampPool]} : S \in SUBSET Dates }

NoOut == [op |-> "none"]
NoSession == [calls |-> 0]

----------------------------------------------------------------------------
(* Specification of the Merger: combine_data applied to any pair of aggregates *)

InitMerge ==
    /\ transaction_df \in TransFrames
    /\ campaign_df \in CampFrames
    /\ combined_data = <<>>
    /\ out = NoOut
    /\ cache = <<>>
    /\ session = NoSession

CombineData ==
    /\ out.op = "none"
    /\ combined_data' = combine_data(transaction_df, campaign_df)
    /\ out' = [op |-> "combine_data"]
    /\ UNCHANGED <<transaction_df, campaign_df, cache, session>>

NextMerge == CombineData

SpecMerge == InitMerge /\ [][NextMerge]_vars

----------------------------------------------------------------------------
(* Metrics Engine: MetricsCalculator *)

BaseMetrics ==
    <<"Orders", "Order Quantity", "Revenue", "Net Revenue", "Item-Promotion-Discount",
      "Impressions", "Clicks", "Campaign Orders", "Campaign Spend", "Campaign Sales">>

DerivedMetrics == <<"CTR", "CVR", "CPA", "CPC", "ROAS", "ACOS", "TACOS">>

BaseSet == Range(BaseMetrics)

Metrics == BaseSet \cup Range(DerivedMetrics)

\* the column of the daily table behind each base metric
ColumnOf(m) ==
    CASE m = "Orders" -> "orders"
      [] m = "Order Quantity" -> "total_units"
      [] m = "Revenue" -> "revenue"
      [] m = "Net Revenue" -> "net_revenue"
      [] m = "Item-Promotion-Discount" -> "item_promotion_discount"
      [] m = "Impressions" -> "impressions"
      [] m = "Clicks" -> "clicks"
      [] m = "Campaign Orders" -> "campaign_orders"
      [] m = "Campaign Spend" -> "campaign_spend"
      [] m = "Campaign Sales" -> "campaign_sales"

\* combined_data[combined_data['date'].isin(dates)]
isin(df, dates) == SelectSeq(df, LAMBDA r : DateOf(r) \in dates)

\* period_data[col].sum(): a numpy number, 0 for no rows
RECURSIVE ColSum(_, _)
ColSum(df, col) ==
    IF df = <<>> THEN 0 ELSE Head(df)[col][1] + ColSum(Tail(df), col)

\* the calendar span of the period in place of the count of its dates
NumDaysSpan(df) ==
    IF df = <<>> THEN 0
    ELSE LET ds == SortSet(DatesOf(df)) IN ds[Len(ds)] - ds[1] + 1

\* len(period_data['date'].unique())
NumDays(df) == Cardinality(DatesOf(df))

\* CTR guarded by clicks instead of impressions
derived_metrics_ctr_guard(impressions, clicks, campaign_orders, campaign_spend, campaign_sales, revenue) ==
    [ CTR   |-> IF Gt0(clicks) THEN Mul(Div(clicks, impressions), I(100)) ELSE None,
      CVR   |-> IF Gt0(clicks) THEN Mul(Div(campaign_orders, clicks), I(100)) ELSE None,
      CPA   |-> IF Gt0(campaign_orders) THEN Div(campaign_spend, campaign_orders) ELSE None,
      CPC   |-> IF Gt0(clicks) THEN Div(campaign_spend, clicks) ELSE None,
      ROAS  |-> IF Gt0(campaign_spend) THEN Div(campaign_sales, campaign_spend) ELSE None,
      ACOS  |-> IF Gt0(campaign_sales) THEN Mul(Div(campaign_spend, campaign_sales), I(100)) ELSE None,
      TACOS |-> IF Gt0(revenue) THEN Mul(Div(campaign_spend, revenue), I(100)) ELSE None ]

\* ROAS guarded by the sales instead of the spend it is divided by
derived_metrics_roas_guard(impressions, clicks, campaign_orders, campaign_spend, campaign_sales, revenue) ==
    [ CTR   |-> IF Gt0(impressions) THEN Mul(Div(clicks, impressions), I(100)) ELSE None,
      CVR   |-> IF Gt0(clicks) THEN Mul(Div(campaign_orders, clicks), I(100)) ELSE None,
      CPA   |-> IF Gt0(campaign_orders) THEN Div(campaign_spend, campaign_orders) ELSE None,
      CPC   |-> IF Gt0(clicks) THEN Div(campaign_spend, clicks) ELSE None,
      ROAS  |-> IF Gt0(campaign_sales) THEN Div(campaign_sales, campaign_spend) ELSE None,
      ACOS  |-> IF Gt0(campaign_sales) THEN Mul(Div(campaign_spend, campaign_sales), I(100)) ELSE None,
      TACOS |-> IF Gt0(revenue) THEN Mul(Div(campaign_spend, revenue), I(100)) ELSE None ]

\* ACOS absent whenever the spend is 0
derived_metrics_acos_guard(impressions, clicks, campaign_orders, campaign_spend, campaign_sales, revenue) ==
    [ CTR   |-> IF Gt0(impressions) THEN Mul(Div(clicks, impressions), I(100)) ELSE None,
      CVR   |-> IF Gt0(clicks) THEN Mul(Div(campaign_orders, clicks), I(100)) ELSE None,
      CPA   |-> IF Gt0(campaign_orders) THEN Div(campaign_spend, campaign_orders) ELSE None,
      CPC   |-> IF Gt0(clicks) THEN Div(campaign_spend, clicks) ELSE None,
      ROAS  |-> IF Gt0(campaign_spend) THEN Div(campaign_sales, campaign_spend) ELSE None,
      ACOS  |-> IF Gt0(campaign_sales) /\ Gt0(campaign_spend)
                THEN Mul(Div(campaign_spend, campaign_sales), I(100)) ELSE None,
      TACOS |-> IF Gt0(revenue) THEN Mul(Div(campaign_spend, revenue), I(100)) ELSE None ]

_calculate_derived_metrics(impressions, clicks, campaign_orders, campaign_spend, campaign_sales, revenue) ==
    [ CTR   |-> IF Gt0(impressions) THEN Mul(Div(clicks, impressions), I(100)) ELSE None,
      CVR   |-> IF Gt0(clicks) THEN Mul(Div(campaign_orders, clicks), I(100)) ELSE None,
      CPA   |-> IF Gt0(campaign_orders) THEN Div(campaign_spend, campaign_orders) ELSE None,
      CPC   |-> IF Gt0(clicks) THEN Div(campaign_spend, clicks) ELSE None,
      ROAS  |-> IF Gt0(campaign_spend) THEN Div(campaign_sales, campaign_spend) ELSE None,
      ACOS  |-> IF Gt0(campaign_sales) THEN Mul(Div(campaign_spend, campaign_sales), I(100)) ELSE None,
      TACOS |-> IF Gt0(revenue) THEN Mul(Div(campaign_spend, revenue), I(100)) ELSE None ]

\* the ten sums of a period, each divided by `days` (1 for a summary)
Totals(period_data, days) ==
    [m \in BaseSet |-> Div(I(ColSum(period_data, ColumnOf(m))), I(days))]

DerivedOf(b) ==
    _calculate_derived_metrics(b["Impressions"], b["Clicks"], b["Campaign Orders"],
                               b["Campaign Spend"], b["Campaign Sales"], b["Revenue"])

\* formatted text: f is the layout, mag the digits (an integer count of 1, 1/10 or
\* 1/100 units), neg the minus sign, nan the text "nan"
RoundHalfEven(a, b) ==
    LET q == a \div b
        r == a % b
    IN  IF 2 * r < b THEN q
        ELSE IF 2 * r > b THEN q + 1
        ELSE IF q % 2 = 0 THEN q ELSE q + 1

Pow10(p) == IF p = 0 THEN 1 ELSE IF p = 1 THEN 10 ELSE 100

\* f"{x:.pf}" with the prefix / suffix named by f
Fixed(f, x, p) ==
    IF IsNum(x)
    THEN [f |-> f, nan |-> FALSE, neg |-> x.n < 0, mag |-> RoundHalfEven(Abs(x.n) * Pow10(p), x.d)]
    ELSE [f |-> f, nan |-> TRUE, neg |-> FALSE, mag |-> 0]

\* int(x): truncation toward zero
FmtInt(x) == [f |-> "int", nan |-> FALSE, neg |-> x.n < 0, mag |-> Abs(x.n) \div x.d]

NA == [f |-> "N/A", nan |-> FALSE, neg |-> FALSE, mag |-> 0]

\* an undefined metric printed as the number 0
FmtDerivedZero(m, v) ==
    LET z == IF v = None THEN I(0) ELSE v
    IN  CASE m \in {"CTR", "CVR", "ACOS", "TACOS"} -> Fixed("pct", z, 2)
          [] m \in {"CPA", "CPC"} -> Fixed("usd", z, 2)
          [] m = "ROAS" -> Fixed("x", z, 2)

FmtDerived(m, v) ==
    IF v = None THEN NA
    ELSE CASE m \in {"CTR", "CVR", "ACOS", "TACOS"} -> Fixed("pct", v, 2)
           [] m \in {"CPA", "CPC"} -> Fixed("usd", v, 2)
           [] m = "ROAS" -> Fixed("x", v, 2)

IsMoney(m) == m \in {"Revenue", "Net Revenue", "Item-Promotion-Discount", "Campaign Spend", "Campaign Sales"}

RawRow(b, dm) ==
    [m \in Metrics |-> IF m \in BaseSet THEN b[m]
                        ELSE IF dm[m] # None THEN dm[m] ELSE I(0)]

\* derived metrics taken as the mean of the per-day ratios
RECURSIVE SumDaily(_, _)
SumDaily(df, m) ==
    IF df = <<>> THEN I(0)
    ELSE LET v == DerivedOf(Totals(<<Head(df)>>, 1))[m]
         IN  Add(IF v = None THEN I(0) ELSE v, SumDaily(Tail(df), m))

summary_row_raw_mean_of_ratios(period_data) ==
    LET b == Totals(period_data, 1)
    IN  [m \in Metrics |->
            IF m \in BaseSet THEN b[m]
            ELSE IF period_data = <<>> THEN I(0)
            ELSE Div(SumDaily(period_data, m), I(Len(period_data)))]

calculate_summary_row_raw(period_data) ==
    LET b == Totals(period_data, 1) IN RawRow(b, DerivedOf(b))

calculate_average_row_raw(period_data) ==
    LET b == Totals(period_data, NumDays(period_data)) IN RawRow(b, DerivedOf(b))

calculate_summary_row(period_data) ==
    LET b == Totals(period_data, 1)
        dm == DerivedOf(b)
    IN  [m \in Metrics |->
            IF m \in BaseSet
            THEN (IF IsMoney(m) THEN Fixed("usd", b[m], 2) ELSE FmtInt(b[m]))
            ELSE FmtDerived(m, dm[m])]

calculate_average_row(period_data) ==
    LET b == Totals(period_data, NumDays(period_data))
        dm == DerivedOf(b)
    IN  [m \in Metrics |->
            IF m \in BaseSet
            THEN (IF IsMoney(m) THEN Fixed("usd", b[m], 2)
                  ELSE IF m = "Impressions" THEN Fixed("f", b[m], 0)
                  ELSE Fixed("f", b[m], 1))
            ELSE FmtDerived(m, dm[m])]

\* one entry of the lift column
\* the lift measured against the magnitude of the baseline
LiftValueAbs(baseline_val, comparison_val) ==
    IF Ne0(baseline_val)
    THEN Fixed("lift", Mul(Div(Sub(comparison_val, baseline_val),
                               [baseline_val EXCEPT !.n = Abs(baseline_val.n)]), I(100)), 2)
    ELSE NA

\* the lift guarded by, and divided by, the comparison value
LiftValueSwapped(baseline_val, comparison_val) ==
    IF Ne0(comparison_val)
    THEN Fixed("lift", Mul(Div(Sub(comparison_val, baseline_val), comparison_val), I(100)), 2)
    ELSE NA

\* f"{lift_pct:+.2f}%".  A zero difference over a negative baseline is the float
\* -0.0, printed "-0.00%"
LiftValue(baseline_val, comparison_val) ==
    IF Ne0(baseline_val)
    THEN LET lift_pct == Mul(Div(Sub(comparison_val, baseline_val), baseline_val), I(100))
             text == Fixed("lift", lift_pct, 2)
         IN  IF IsNum(lift_pct) /\ lift_pct.n = 0 /\ Lt0(baseline_val)
             THEN [text EXCEPT !.neg = TRUE]
             ELSE text
    ELSE NA

_calculate_lift_column(baseline, comparison) ==
    [m \in DOMAIN baseline |-> LiftValue(baseline[m], comparison[m])]

\* calculate_lift: the three fixed comparisons, each present when both of its
\* periods are ("->" stands for the arrow of the source's column names)
calculate_lift(summaries_raw) ==
    LET has(a, b) == {a, b} \subseteq DOMAIN summaries_raw
        names == (IF has("Lead In", "Discount") THEN {"Discount -> Lead In"} ELSE {}) \cup
                 (IF has("Lead In", "Lead Out") THEN {"Lead Out -> Lead In"} ELSE {}) \cup
                 (IF has("Discount", "Lead Out") THEN {"Lead Out -> Discount"} ELSE {})
    IN  [n \in names |->
            CASE n = "Discount -> Lead In" ->
                     _calculate_lift_column(summaries_raw["Lead In"], summaries_raw["Discount"])
              [] n = "Lead Out -> Lead In" ->
                     _calculate_lift_column(summaries_raw["Lead In"], summaries_raw["Lead Out"])
              [] n = "Lead Out -> Discount" ->
                     _calculate_lift_column(summaries_raw["Discount"], summaries_raw["Lead Out"])]

\* round(x, 2) and int(x) on numbers
Round2(x) ==
    IF IsNum(x)
    THEN Num((IF x.n < 0 THEN -1 ELSE 1) * RoundHalfEven(Abs(x.n) * 100, x.d), 100)
    ELSE x
Trunc(x) == I((IF x.n < 0 THEN -1 ELSE 1) * (Abs(x.n) \div x.d))

\* calculate_period_metrics: for every period with dates, the sums and the
\* derived metrics of the sums, as numbers (0 for an undefined metric)
calculate_period_metrics(df, periods) ==
    [name \in {n \in DOMAIN periods : periods[n] # {}} |->
        LET b == Totals(isin(df, periods[name]), 1)
            dm == DerivedOf(b)
        IN  [m \in (Metrics \ {"Order Quantity", "Revenue"}) \cup {"Sales"} |->
                IF m \in {"Orders", "Impressions", "Clicks", "Campaign Orders"} THEN Trunc(b[m])
                ELSE IF m = "Sales" THEN Round2(b["Revenue"])
                ELSE IF m \in BaseSet THEN Round2(b[m])
                ELSE IF dm[m] # None THEN Round2(dm[m]) ELSE I(0)]]

----------------------------------------------------------------------------
(* Specification of the Metrics Engine: one operation applied to a period of *)
(* a daily table that combine_data produced.  The operations are functions *)
(* of their arguments, so a behaviour is a table and one call.              *)

InitMetrics ==
    /\ transaction_df \in TransFrames
    /\ campaign_df \in CampFrames
    /\ combined_data = combine_data(transaction_df, campaign_df)
    /\ Len(combined_data) <= MaxRows
    /\ out = NoOut
    /\ cache = <<>>
    /\ session = NoSession

Call(op, sel, res) ==
    /\ out.op = "none"
    /\ out' = [op |-> op, sel |-> sel, res |-> res]
    /\ UNCHANGED <<transaction_df, campaign_df, combined_data, cache, session>>

SummaryRow ==
    \E sel \in SUBSET Dates :
        Call("calculate_summary_row", sel, calculate_summary_row(isin(combined_data, sel)))

SummaryRowRaw ==
    \E sel \in SUBSET Dates :
        Call("calculate_summary_row_raw", sel, calculate_summary_row_raw(isin(combined_data, sel)))

AverageRow ==
    \E sel \in SUBSET Dates :
        Call("calculate_average_row", sel, calculate_average_row(isin(combined_data, sel)))

AverageRowRaw ==
    \E sel \in SUBSET Dates :
        Call("calculate_average_row_raw", sel, calculate_average_row_raw(isin(combined_data, sel)))

\* the helper applied to the pseudo-record of a day, of a period's sums or of a
\* period's averages
DerivedMetricsCall ==
    \E sel \in SUBSET Dates, avg \in BOOLEAN :
        LET pd == isin(combined_data, sel)
        IN  /\ pd # <<>>
            /\ Call("_calculate_derived_metrics", sel,
                    LET b == Totals(pd, IF avg THEN NumDays(pd) ELSE 1)
                    IN  [args |-> b, ret |-> DerivedOf(b)])

\* main: the rows of two selected periods (dates picked among the table's dates,
\* a period is used only if it has dates) and the lift of one against the other
LiftColumn ==
    \E selA \in (SUBSET DatesOf(combined_data)) \ {{}},
       selB \in (SUBSET DatesOf(combined_data)) \ {{}} :
        LET baseline == calculate_average_row_raw(isin(combined_data, selA))
            comparison == calculate_average_row_raw(isin(combined_data, selB))
        IN  Call("_calculate_lift_column", <<selA, selB>>,
                 [baseline |-> baseline, comparison |-> comparison,
                  ab |-> _calculate_lift_column(baseline, comparison),
                  ba |-> _calculate_lift_column(comparison, baseline)])

NextMetrics ==
    \/ SummaryRow
    \/ SummaryRowRaw
    \/ AverageRow
    \/ AverageRowRaw
    \/ DerivedMetricsCall

SpecMetrics == InitMetrics /\ [][NextMetrics]_vars

NextLift == LiftColumn

SpecLift == InitMetrics /\ [][NextLift]_vars

----------------------------------------------------------------------------
(* The daily metrics table and the report main renders from it *)

\* a base metric of 0 printed as the number, as the TOTAL column prints it
DayColumnZeroShown(day_data) ==
    LET v(m) == I(day_data[ColumnOf(m)][1])
        dm == _calculate_derived_metrics(v("Impressions"), v("Clicks"), v("Campaign Orders"),
                                         v("Campaign Spend"), v("Campaign Sales"), v("Revenue"))
    IN  [m \in Metrics |->
            IF m \in BaseSet
            THEN (IF IsMoney(m) THEN Fixed("usd", v(m), 2) ELSE FmtInt(v(m)))
            ELSE FmtDerived(m, dm[m])]

\* one column of the daily table: a base metric is shown only when it is
\* positive (Net Revenue: when it is not 0), a derived metric when it is defined
DayColumn(day_data) ==
    LET v(m) == I(day_data[ColumnOf(m)][1])
        dm == _calculate_derived_metrics(v("Impressions"), v("Clicks"), v("Campaign Orders"),
                                         v("Campaign Spend"), v("Campaign Sales"), v("Revenue"))
    IN  [m \in Metrics |->
            IF m \in BaseSet
            THEN (IF (IF m = "Net Revenue" THEN Ne0(v(m)) ELSE Gt0(v(m)))
                  THEN (IF IsMoney(m) THEN Fixed("usd", v(m), 2) ELSE FmtInt(v(m)))
                  ELSE NA)
            ELSE FmtDerived(m, dm[m])]

\* each column made from the sums of the rows up to its date
calculate_daily_table_cumulative(df) ==
    LET upto(date) == SelectSeq(df, LAMBDA r : DateOf(r) <= date)
    IN  [columns |-> SortSet(DatesOf(df)),
         col |-> [date \in DatesOf(df) |->
                     DayColumn([c \in Range(expected_columns) |->
                                   IF c = "date" THEN <<date>> ELSE <<ColSum(upto(date), c)>>])]]

\* calculate_daily_table: metrics as rows and dates as columns, the columns in
\* the order of sorted(data['date'].unique()); the column of a date is made
\* from the first row of that date
calculate_daily_table(df) ==
    [columns |-> SortSet(DatesOf(df)),
     col |-> [date \in DatesOf(df) |-> DayColumn(RowsOn(df, date)[1])]]

\* main: the table of a period is the daily columns of its dates with the
\* TOTAL and AVERAGE columns added
PeriodTable(daily_table, df, dates) ==
    LET period_data == isin(df, dates)
    IN  [days |-> [d \in dates |-> daily_table.col[d]],
         TOTAL |-> calculate_summary_row(period_data),
         AVERAGE |-> calculate_average_row(period_data)]

\* main on a non-empty daily table with the Lead In period selected and the
\* Discount period (other dates of the table) selected or not: the daily table,
\* the table of each selected period, the raw averages, and with both periods
\* the lift of Discount against the Lead In baseline
Analysis ==
    \E lead_in_dates \in (SUBSET DatesOf(combined_data)) \ {{}} :
    \E discount_dates \in SUBSET (DatesOf(combined_data) \ lead_in_dates) :
        LET daily_table == calculate_daily_table(combined_data)
            periods == IF discount_dates = {} THEN <<lead_in_dates>>
                       ELSE <<lead_in_dates, discount_dates>>
            summaries_raw ==
                [i \in DOMAIN periods |-> calculate_average_row_raw(isin(combined_data, periods[i]))]
        IN  /\ combined_data # <<>>
            /\ Call("main", periods,
                    [daily_table |-> daily_table,
                     tables |-> [i \in DOMAIN periods |->
                                    PeriodTable(daily_table, combined_data, periods[i])],
                     summaries_raw |-> summaries_raw,
                     lift |-> IF Len(periods) = 2
                              THEN <<_calculate_lift_column(summaries_raw[1], summaries_raw[2])>>
                              ELSE <<>>])

NextAnalysis == Analysis

SpecAnalysis == InitMetrics /\ [][NextAnalysis]_vars

----------------------------------------------------------------------------
(* Spreadsheet Ingestor: DataProcessor.process_transaction_data and          *)
(* process_campaign_data.  An uploaded file is <<>> (no bytes) or a sheet    *)
(* [columns_ok, rows]; a cell is <<v>> or <<>> (blank).  A Date cell of a     *)
(* campaign sheet is a serial number, a text that parses to a calendar date  *)
(* [year, month, day], or a text that does not parse.  A datetime.date is    *)
(* held as the number of days from 1899-12-30 to it (DateKey), which keeps   *)
(* the equality and the order of the calendar dates.                         *)

Failed == [ok |-> FALSE, df |-> <<>>]
Ok(df) == [ok |-> TRUE, df |-> df]

\* df.groupby('date').agg(col: 'sum'), one row per date, in date order; blank
\* cells add nothing
RECURSIVE CellSum(_, _)
CellSum(rows, col) ==
    IF rows = <<>> THEN 0
    ELSE (IF Head(rows)[col] = <<>> THEN 0 ELSE Head(rows)[col][1]) + CellSum(Tail(rows), col)

\* the order-status filter left out
process_transaction_data_any_status(file_bytes) ==
    IF file_bytes = <<>> \/ ~file_bytes.columns_ok THEN Failed
    ELSE LET kept == SelectSeq(file_bytes.rows, LAMBDA r : r["sales-channel"] = "Amazon.com")
             dated == SelectSeq(kept, LAMBDA r : r["purchase-date"] # <<>>)
             on(d) == SelectSeq(dated, LAMBDA r : r["purchase-date"][1] = d)
             ds == SortSet({dated[i]["purchase-date"][1] : i \in DOMAIN dated})
         IN  Ok([i \in 1..Len(ds) |->
                    LET revenue == CellSum(on(ds[i]), "item-price")
                        discount == CellSum(on(ds[i]), "item-promotion-discount")
                    IN  [c \in TransactionColumns |->
                            CASE c = "date" -> <<ds[i]>>
                              [] c = "total_units" -> <<CellSum(on(ds[i]), "quantity")>>
                              [] c = "revenue" -> <<revenue>>
                              [] c = "item_promotion_discount" -> <<discount>>
                              [] c = "orders" -> <<Len(on(ds[i]))>>
                              [] c = "net_revenue" -> <<revenue - discount>>]])

\* the dates parsed with errors='raise': a value that is no date aborts the call
process_transaction_data_strict_dates(file_bytes) ==
    IF file_bytes = <<>> \/ ~file_bytes.columns_ok THEN Failed
    ELSE LET kept == SelectSeq(file_bytes.rows,
                        LAMBDA r : r["sales-channel"] = "Amazon.com" /\ r["order-status"] = "Shipped")
         IN  IF \E i \in DOMAIN kept : kept[i]["purchase-date"] = <<>> THEN Failed
             ELSE process_transaction_data_any_status(
                      [columns_ok |-> TRUE, rows |-> kept])

process_transaction_data(file_bytes) ==
    IF file_bytes = <<>> \/ ~file_bytes.columns_ok THEN Failed
    ELSE LET kept == SelectSeq(file_bytes.rows,
                        LAMBDA r : r["sales-channel"] = "Amazon.com" /\ r["order-status"] = "Shipped")
             \* pd.to_datetime(errors='coerce') and dropna(subset=['date'])
             dated == SelectSeq(kept, LAMBDA r : r["purchase-date"] # <<>>)
             on(d) == SelectSeq(dated, LAMBDA r : r["purchase-date"][1] = d)
             ds == SortSet({dated[i]["purchase-date"][1] : i \in DOMAIN dated})
         IN  Ok([i \in 1..Len(ds) |->
                    LET revenue == CellSum(on(ds[i]), "item-price")
                        discount == CellSum(on(ds[i]), "item-promotion-discount")
                    IN  [c \in TransactionColumns |->
                            CASE c = "date" -> <<ds[i]>>
                              [] c = "total_units" -> <<CellSum(on(ds[i]), "quantity")>>
                              [] c = "revenue" -> <<revenue>>
                              [] c = "item_promotion_discount" -> <<discount>>
                              [] c = "orders" -> <<Len(on(ds[i]))>>
                              [] c = "net_revenue" -> <<revenue - discount>>]])

excel_epoch == [year |-> 1899, month |-> 12, day |-> 30]

\* the proleptic Gregorian calendar of datetime: date.toordinal()
IsLeap(year) == (year % 4 = 0 /\ year % 100 # 0) \/ year % 400 = 0

DaysBeforeYear(year) ==
    (year - 1) * 365 + ((year - 1) \div 4) - ((year - 1) \div 100) + ((year - 1) \div 400)

DaysBeforeMonth(year, month) ==
    <<0, 31, 59, 90, 120, 151, 181, 212, 243, 273, 304, 334>>[month]
        + (IF month > 2 /\ IsLeap(year) THEN 1 ELSE 0)

ToOrdinal(date) == DaysBeforeYear(date.year) + DaysBeforeMonth(date.year, date.month) + date.day

\* the value a calendar date has in the 'date' column of a table: the days from
\* 1899-12-30 to it
DateKey(date) == ToOrdinal(date) - ToOrdinal(excel_epoch)

\* the serial counted from the day after the epoch
convert_single_from_next_day(cell) ==
    IF cell[1].kind = "serial" THEN cell[1].day + 1
    ELSE DateKey(cell[1].date)

\* convert_single: a number is a count of days from excel_epoch, so the date it
\* gives is held as that number; anything else goes through pd.to_datetime.  A
\* blank cell (NaN) makes timedelta raise and a text that is no date makes
\* pd.to_datetime raise
DateConvertible(cell) == cell # <<>> /\ cell[1].kind \in {"serial", "text"}
convert_single(cell) ==
    IF cell[1].kind = "serial" THEN cell[1].day
    ELSE DateKey(cell[1].date)

\* date_series.apply(convert_single)
_convert_excel_date_vectorized(date_series) ==
    IF \E i \in DOMAIN date_series : ~DateConvertible(date_series[i])
    THEN [ok |-> FALSE, dates |-> <<>>]
    ELSE [ok |-> TRUE, dates |-> [i \in DOMAIN date_series |-> convert_single(date_series[i])]]

\* one source: read, convert the dates, group by date.  SP reports the 7-day
\* attribution columns, SB and SD the 14-day ones
CampaignSource(bytes, orders_col, sales_col) ==
    IF ~bytes.columns_ok \/ \E i \in DOMAIN bytes.rows : ~DateConvertible(bytes.rows[i]["Date"])
    THEN Failed
    ELSE LET rows == bytes.rows
             on(d) == SelectSeq(rows, LAMBDA r : convert_single(r["Date"]) = d)
             ds == SortSet({convert_single(rows[i]["Date"]) : i \in DOMAIN rows})
         IN  Ok([i \in 1..Len(ds) |->
                    [c \in CampaignColumns |->
                        CASE c = "date" -> <<ds[i]>>
                          [] c = "impressions" -> <<CellSum(on(ds[i]), "Impressions")>>
                          [] c = "clicks" -> <<CellSum(on(ds[i]), "Clicks")>>
                          [] c = "campaign_spend" -> <<CellSum(on(ds[i]), "Spend")>>
                          [] c = "campaign_orders" -> <<CellSum(on(ds[i]), orders_col)>>
                          [] c = "campaign_sales" -> <<CellSum(on(ds[i]), sales_col)>>]])

\* the per-source aggregates concatenated and returned without the second
\* groupby
process_campaign_data_concat_only(sp_bytes, sb_bytes, sd_bytes) ==
    LET sp == IF sp_bytes # <<>>
              THEN <<CampaignSource(sp_bytes, "7 Day Total Orders (#)", "7 Day Total Sales ")>> ELSE <<>>
        sb == IF sb_bytes # <<>>
              THEN <<CampaignSource(sb_bytes, "14 Day Total Orders (#)", "14 Day Total Sales ")>> ELSE <<>>
        sd == IF sd_bytes # <<>>
              THEN <<CampaignSource(sd_bytes, "14 Day Total Orders (#)", "14 Day Total Sales ")>> ELSE <<>>
        all_data == sp \o sb \o sd
    IN  IF \E i \in DOMAIN all_data : ~all_data[i].ok THEN Failed
        ELSE IF all_data = <<>> THEN Ok(<<>>)
        ELSE Ok(IF Len(all_data) = 1 THEN all_data[1].df
                ELSE IF Len(all_data) = 2 THEN all_data[1].df \o all_data[2].df
                ELSE all_data[1].df \o all_data[2].df \o all_data[3].df)

process_campaign_data(sp_bytes, sb_bytes, sd_bytes) ==
    LET sp == IF sp_bytes # <<>>
              THEN <<CampaignSource(sp_bytes, "7 Day Total Orders (#)", "7 Day Total Sales ")>> ELSE <<>>
        sb == IF sb_bytes # <<>>
              THEN <<CampaignSource(sb_bytes, "14 Day Total Orders (#)", "14 Day Total Sales ")>> ELSE <<>>
        sd == IF sd_bytes # <<>>
              THEN <<CampaignSource(sd_bytes, "14 Day Total Orders (#)", "14 Day Total Sales ")>> ELSE <<>>
        all_data == sp \o sb \o sd
    IN  IF \E i \in DOMAIN all_data : ~all_data[i].ok THEN Failed
        ELSE IF all_data = <<>> THEN Ok(<<>>)
        ELSE LET combined == IF Len(all_data) = 1 THEN all_data[1].df
                             ELSE IF Len(all_data) = 2 THEN all_data[1].df \o all_data[2].df
                             ELSE all_data[1].df \o all_data[2].df \o all_data[3].df
                 ds == SortSet(DatesOf(combined))
             IN  Ok([i \in 1..Len(ds) |->
                        [c \in CampaignColumns |->
                            IF c = "date" THEN <<ds[i]>>
                            ELSE <<CellSum(RowsOn(combined, ds[i]), c)>>]])

\* the body of process_files: an exception of a step propagates
Pipeline(transaction_bytes, sp_bytes, sb_bytes, sd_bytes) ==
    LET t == process_transaction_data(transaction_bytes)
        c == process_campaign_data(sp_bytes, sb_bytes, sd_bytes)
    IN  IF ~t.ok \/ ~c.ok THEN Failed ELSE Ok(combine_data(t.df, c.df))

----------------------------------------------------------------------------
(* main and the memoised process_files *)

max_entries == 10

\* hashlib.md5(transaction_bytes + sp_bytes + sb_bytes + sd_bytes).hexdigest():
\* the digest stands for the concatenated content
FileHash(transaction_bytes, sp_bytes, sb_bytes, sd_bytes) ==
    <<transaction_bytes, sp_bytes, sb_bytes, sd_bytes>>

\* the key st.cache_data builds for a call: the values of the parameters whose
\* name does not begin with an underscore.  process_files has none.
CacheKey(_transaction_bytes, _sp_bytes, _sb_bytes, _sd_bytes, _file_hash) == <<>>

\* a lookup that never finds the entry
CacheMiss(store, key) == <<>>

\* the entry stored under the key, <<>> if none
CacheLookup(store, key) == SelectSeq(store, LAMBDA e : e.key = key)

\* a new entry; the oldest entries go when there are more than max_entries
CacheStore(store, key, value) ==
    LET grown == Append(store, [key |-> key, value |-> value])
    IN  IF Len(grown) > max_entries THEN SubSeq(grown, Len(grown) - max_entries + 1, Len(grown))
        ELSE grown

----------------------------------------------------------------------------
(* Uploaded files of the sessions checked *)

TRow(channel, status, day, quantity, price, discount) ==
    [c \in {"sales-channel", "order-status", "purchase-date", "quantity", "item-price",
            "item-promotion-discount"} |->
        CASE c = "sales-channel" -> channel
          [] c = "order-status" -> status
          [] c = "purchase-date" -> day
          [] c = "quantity" -> quantity
          [] c = "item-price" -> price
          [] c = "item-promotion-discount" -> discount]

Serial(k) == <<[kind |-> "serial", day |-> k]>>
Text(year, month, day) == <<[kind |-> "text", date |-> [year |-> year, month |-> month, day |-> day]]>>

\* a text that pd.to_datetime cannot parse
Unparseable == <<[kind |-> "unparseable"]>>

\* a campaign row; SP sheets carry the 7-day columns, SB and SD the 14-day ones
CRow(window, date, impressions, clicks, spend, orders, sales) ==
    [c \in {"Date", "Impressions", "Clicks", "Spend"} \cup
           (IF window = 7 THEN {"7 Day Total Orders (#)", "7 Day Total Sales "}
            ELSE {"14 Day Total Orders (#)", "14 Day Total Sales "}) |->
        CASE c = "Date" -> date
          [] c = "Impressions" -> <<impressions>>
          [] c = "Clicks" -> <<clicks>>
          [] c = "Spend" -> <<spend>>
          [] c \in {"7 Day Total Orders (#)", "14 Day Total Orders (#)"} -> <<orders>>
          [] OTHER -> <<sales>>]

Sheet(rows) == [columns_ok |-> TRUE, rows |-> rows]

\* two shipped orders and a cancelled one on day 1, a blank date, a blank price
TransactionsA ==
    Sheet(<< TRow("Amazon.com", "Shipped", <<1>>, <<2>>, <<20>>, <<0>>),
             TRow("Amazon.com", "Shipped", <<1>>, <<1>>, <<15>>, <<0>>),
             TRow("Amazon.com", "Cancelled", <<1>>, <<1>>, <<9>>, <<0>>),
             TRow("Amazon.com", "Shipped", <<>>, <<1>>, <<7>>, <<0>>),
             TRow("Amazon.com", "Shipped", <<2>>, <<1>>, <<>>, <<3>>) >>)

TransactionsB ==
    Sheet(<< TRow("Amazon.com", "Shipped", <<2>>, <<4>>, <<40>>, <<5>>),
             TRow("Non-Amazon", "Shipped", <<2>>, <<1>>, <<10>>, <<0>>) >>)

\* a transaction export without its item-price column
TransactionsNoPrice == [columns_ok |-> FALSE, rows |-> <<>>]

SPa == Sheet(<< CRow(7, Serial(1), 1000, 0, 5, 0, 0), CRow(7, Text(1899, 12, 31), 200, 10, 4, 1, 30) >>)
SPb == Sheet(<< CRow(7, Serial(3), 50, 5, 2, 1, 12) >>)

\* an SP export without its Spend column
SPNoSpend == [columns_ok |-> FALSE, rows |-> <<>>]
SBa == Sheet(<< CRow(14, Serial(1), 300, 3, 6, 0, 0), CRow(14, Serial(2), 100, 1, 1, 1, 8) >>)
SDa == Sheet(<< CRow(14, Text(1900, 1, 1), 10, 0, 1, 0, 0) >>)

\* the content of an uploaded file, by the file's name; "" is an uploader left
\* empty
Bytes(name) ==
    CASE name = "" -> <<>>
      [] name = "TransactionsA" -> TransactionsA
      [] name = "TransactionsB" -> TransactionsB
      [] name = "TransactionsNoPrice" -> TransactionsNoPrice
      [] name = "SPa" -> SPa
      [] name = "SPb" -> SPb
      [] name = "SPNoSpend" -> SPNoSpend
      [] name = "SBa" -> SBa
      [] name = "SDa" -> SDa

\* main waits until all four files are uploaded
FileSets ==
    [t : {"TransactionsA", "TransactionsB", "TransactionsNoPrice"}, sp : {"SPa", "SPb", "SPNoSpend"},
     sb : {"SBa"}, sd : {"SDa"}]

\* uploads with at least one of the four uploaders left empty
PartialFileSets ==
    [t : {"", "TransactionsA"}, sp : {"", "SPa"}, sb : {"", "SBa"}, sd : {"", "SDa"}] \ FileSets

NoFiles == [t |-> "", sp |-> "", sb |-> "", sd |-> ""]

----------------------------------------------------------------------------
(* Specification of the transaction ingestor: process_transaction_data       *)
(* applied to any export of at most MaxOrderRows rows                        *)

\* rows of a transaction export: shipped, cancelled and other-channel orders,
\* a blank or unparseable purchase date, blank quantity / price / discount
OrderRows ==
    { TRow("Amazon.com", "Shipped", <<1>>, <<2>>, <<20>>, <<0>>),
      TRow("Amazon.com", "Shipped", <<1>>, <<1>>, <<15>>, <<0>>),
      TRow("Amazon.com", "Cancelled", <<1>>, <<1>>, <<9>>, <<0>>),
      TRow("Non-Amazon", "Shipped", <<1>>, <<1>>, <<10>>, <<1>>),
      TRow("Amazon.com", "Shipped", <<>>, <<1>>, <<7>>, <<0>>),
      TRow("Amazon.com", "Shipped", <<2>>, <<1>>, <<>>, <<3>>),
      TRow("Amazon.com", "Shipped", <<2>>, <<>>, <<5>>, <<>>) }

Exports == UNION { [1..n -> OrderRows] : n \in 0..MaxOrderRows }

InitIngest ==
    /\ transaction_df = <<>>
    /\ campaign_df = <<>>
    /\ combined_data = <<>>
    /\ out = NoOut
    /\ cache = <<>>
    /\ \E rows \in Exports : session = [calls |-> 0, transaction_bytes |-> Sheet(rows)]

ProcessTransactionData ==
    LET result == process_transaction_data(session.transaction_bytes)
    IN  /\ out.op = "none"
        /\ transaction_df' = result.df
        /\ out' = [op |-> "process_transaction_data", ok |-> result.ok]
        /\ UNCHANGED <<campaign_df, combined_data, cache, session>>

NextIngest == ProcessTransactionData

SpecIngest == InitIngest /\ [][NextIngest]_vars

----------------------------------------------------------------------------
(* Specification of the campaign ingestor: process_campaign_data applied to  *)
(* any SP, SB and SD reports of at most MaxSourceRows rows each, a report    *)
(* possibly absent                                                           *)

\* rows of an SP report: a serial and a text Date of the same day, a blank Date
\* and a Date that is no date
SPRows ==
    { CRow(7, Serial(1), 1000, 0, 5, 0, 0),
      CRow(7, Text(1899, 12, 31), 200, 10, 4, 1, 30),
      CRow(7, <<>>, 70, 7, 3, 0, 0),
      CRow(7, Unparseable, 90, 9, 2, 1, 11) }

SBRows ==
    { CRow(14, Serial(2), 300, 3, 6, 0, 0),
      CRow(14, Text(1900, 1, 2), 100, 1, 1, 1, 8) }

SDRows ==
    { CRow(14, Serial(3), 10, 0, 1, 0, 0),
      CRow(14, Text(1899, 12, 31), 40, 2, 2, 1, 6) }

\* an uploader left empty, or a report of at most MaxSourceRows of the rows
Reports(rows) == {<<>>} \cup {Sheet(r) : r \in UNION { [1..n -> rows] : n \in 0..MaxSourceRows }}

InitCampaign ==
    /\ transaction_df = <<>>
    /\ campaign_df = <<>>
    /\ combined_data = <<>>
    /\ out = NoOut
    /\ cache = <<>>
    /\ \E sp \in Reports(SPRows), sb \in Reports(SBRows), sd \in Reports(SDRows) :
           session = [calls |-> 0, sp_bytes |-> sp, sb_bytes |-> sb, sd_bytes |-> sd]

ProcessCampaignData ==
    LET result == process_campaign_data(session.sp_bytes, session.sb_bytes, session.sd_bytes)
    IN  /\ out.op = "none"
        /\ campaign_df' = result.df
        /\ out' = [op |-> "process_campaign_data", ok |-> result.ok]
        /\ UNCHANGED <<transaction_df, combined_data, cache, session>>

\* the Date column of one uploaded report converted
ConvertDates ==
    \E bytes \in {session.sp_bytes, session.sb_bytes, session.sd_bytes} \ {<<>>} :
        LET date_series == [i \in DOMAIN bytes.rows |-> bytes.rows[i]["Date"]]
            result == _convert_excel_date_vectorized(date_series)
        IN  /\ out.op = "none"
            /\ out' = [op |-> "_convert_excel_date_vectorized", date_series |-> date_series,
                       ok |-> result.ok, dates |-> result.dates]
            /\ UNCHANGED <<transaction_df, campaign_df, combined_data, cache, session>>

NextCampaign == ProcessCampaignData \/ ConvertDates

SpecCampaign == InitCampaign /\ [][NextCampaign]_vars

----------------------------------------------------------------------------
(* Specification of the pipeline: the body of process_files applied to any   *)
(* transaction export of at most MaxOrderRows rows and any of the campaign   *)
(* reports of the sessions, a report possibly absent                         *)

InitPipeline ==
    /\ transaction_df = <<>>
    /\ campaign_df = <<>>
    /\ combined_data = <<>>
    /\ out = NoOut
    /\ cache = <<>>
    /\ \E rows \in Exports, sp \in {"", "SPa", "SPb"}, sb \in {"", "SBa"}, sd \in {"", "SDa"} :
           session = [calls |-> 0, transaction_bytes |-> Sheet(rows),
                      sp_bytes |-> Bytes(sp), sb_bytes |-> Bytes(sb), sd_bytes |-> Bytes(sd)]

\* process_files without the cache in front of it
RunPipeline ==
    LET t == process_transaction_data(session.transaction_bytes)
        c == process_campaign_data(session.sp_bytes, session.sb_bytes, session.sd_bytes)
        result == Pipeline(session.transaction_bytes, session.sp_bytes, session.sb_bytes,
                           session.sd_bytes)
    IN  /\ out.op = "none"
        /\ transaction_df' = t.df
        /\ campaign_df' = IF t.ok THEN c.df ELSE <<>>
        /\ combined_data' = result.df
        /\ out' = [op |-> "process_files", ok |-> result.ok]
        /\ UNCHANGED <<cache, session>>

NextPipeline == RunPipeline

SpecPipeline == InitPipeline /\ [][NextPipeline]_vars

----------------------------------------------------------------------------
(* Specification of a session: uploads processed through the memoised       *)
(* process_files, and the Clear Cache button                                 *)

\* since_clear counts the process_files calls since the cache was last empty by
\* construction or by Clear Cache; cleared holds the file-sets that had been
\* processed when Clear Cache was pressed
Idle ==
    [calls |-> 0, status |-> "idle", fs |-> NoFiles, ran |-> FALSE, repeat |-> FALSE,
     prev |-> <<>>, returned |-> {}, since_clear |-> 0, cleared |-> {}]

InitCache ==
    /\ transaction_df = <<>>
    /\ campaign_df = <<>>
    /\ combined_data = <<>>
    /\ out = NoOut
    /\ cache = <<>>
    /\ session = Idle

\* main, lines 63-91, with process_files behind st.cache_data: a hit returns the
\* stored value without running the body; a miss runs it and stores what it
\* returns; an exception stores nothing and is reported by main
ProcessFiles ==
    \E fs \in FileSets :
        LET transaction_bytes == Bytes(fs.t)
            sp_bytes == Bytes(fs.sp)
            sb_bytes == Bytes(fs.sb)
            sd_bytes == Bytes(fs.sd)
            file_hash == FileHash(transaction_bytes, sp_bytes, sb_bytes, sd_bytes)
            key == CacheKey(transaction_bytes, sp_bytes, sb_bytes, sd_bytes, file_hash)
            hit == CacheLookup(cache, key)
            run == Pipeline(transaction_bytes, sp_bytes, sb_bytes, sd_bytes)
            before == {r \in session.returned : r.fs = fs}
            note(status, ran) ==
                [calls |-> session.calls + 1, status |-> status, fs |-> fs, ran |-> ran,
                 repeat |-> before # {},
                 prev |-> IF before # {} THEN (CHOOSE r \in before : TRUE).value ELSE <<>>,
                 returned |-> session.returned,
                 since_clear |-> session.since_clear + 1, cleared |-> session.cleared]
        IN  /\ session.calls < MaxCalls
            /\ IF hit # <<>>
               THEN /\ combined_data' = hit[1].value
                    /\ cache' = cache
                    /\ session' = [note("ok", FALSE) EXCEPT
                                      !.returned = @ \cup {[fs |-> fs, value |-> hit[1].value]}]
               ELSE IF run.ok
               THEN /\ combined_data' = run.df
                    /\ cache' = CacheStore(cache, key, run.df)
                    /\ session' = [note("ok", TRUE) EXCEPT
                                      !.returned = @ \cup {[fs |-> fs, value |-> run.df]}]
               ELSE /\ combined_data' = <<>>
                    /\ cache' = cache
                    /\ session' = note("error", TRUE)
            /\ UNCHANGED <<transaction_df, campaign_df, out>>

\* main, lines 63 and 529-530: while one of the four files is missing, nothing is
\* processed and the page asks for all four files
AwaitFiles ==
    \E fs \in PartialFileSets :
        /\ session.calls < MaxCalls
        /\ combined_data' = <<>>
        /\ session' = [session EXCEPT !.calls = @ + 1, !.status = "waiting", !.fs = fs,
                                      !.ran = FALSE, !.repeat = FALSE, !.prev = <<>>]
        /\ UNCHANGED <<transaction_df, campaign_df, out, cache>>

\* a button that resets the page and leaves the cache as it is
ClearPageOnly ==
    /\ session.calls < MaxCalls
    /\ cache' = cache
    /\ combined_data' = <<>>
    /\ session' = [Idle EXCEPT !.calls = session.calls + 1,
                               !.cleared = session.cleared \cup {r.fs : r \in session.returned}]
    /\ UNCHANGED <<transaction_df, campaign_df, out>>

\* the Clear Cache button: st.cache_data.clear() and a rerun
ClearCache ==
    /\ session.calls < MaxCalls
    /\ cache' = <<>>
    /\ combined_data' = <<>>
    /\ session' = [Idle EXCEPT !.calls = session.calls + 1,
                               !.cleared = session.cleared \cup {r.fs : r \in session.returned}]
    /\ UNCHANGED <<transaction_df, campaign_df, out>>

NextCache == ProcessFiles \/ AwaitFiles \/ ClearCache

SpecCache == InitCache /\ [][NextCache]_vars

----------------------------------------------------------------------------
(* Specification of the Metrics Engine at work on the daily table of an      *)
(* upload: any sequence of at most MaxCalls of its operations                *)

InitEngine ==
    \E fs \in FileSets :
        LET t == process_transaction_data(Bytes(fs.t))
            c == process_campaign_data(Bytes(fs.sp), Bytes(fs.sb), Bytes(fs.sd))
        IN  /\ t.ok /\ c.ok
            /\ transaction_df = t.df
            /\ campaign_df = c.df
            /\ combined_data = combine_data(t.df, c.df)
            /\ out = NoOut
            /\ cache = <<>>
            /\ session = NoSession

\* an operation that leaves its table with the first row dropped
InvokeOnTable(op, sel, res) ==
    /\ session.calls < MaxCalls
    /\ out' = [op |-> op, sel |-> sel, res |-> res]
    /\ session' = [calls |-> session.calls + 1]
    /\ combined_data' = Tail(combined_data)
    /\ UNCHANGED <<transaction_df, campaign_df, cache>>

\* an operation of the calculator: it reads the table (calculate_daily_table a
\* copy of it, the others the rows a filter selects) and returns a new object
Invoke(op, sel, res) ==
    /\ session.calls < MaxCalls
    /\ out' = [op |-> op, sel |-> sel, res |-> res]
    /\ session' = [calls |-> session.calls + 1]
    /\ UNCHANGED <<transaction_df, campaign_df, combined_data, cache>>

\* the periods picked among the dates of the table: Lead In, then Discount and
\* Lead Out among the dates left
Periods ==
    { [n \in {"Lead In", "Discount", "Lead Out"} |->
          CASE n = "Lead In" -> A [] n = "Discount" -> B [] n = "Lead Out" -> C] :
      A \in (SUBSET DatesOf(combined_data)) \ {{}},
      B \in SUBSET DatesOf(combined_data),
      C \in SUBSET DatesOf(combined_data) }

DisjointPeriods ==
    { p \in Periods : /\ p["Lead In"] \cap p["Discount"] = {}
                      /\ p["Lead In"] \cap p["Lead Out"] = {}
                      /\ p["Discount"] \cap p["Lead Out"] = {} }

DailyTable ==
    Invoke("calculate_daily_table", {}, calculate_daily_table(combined_data))

\* the dates of a period: some dates of the table
Selections == (SUBSET DatesOf(combined_data)) \ {{}}

SummaryRowOfPeriod ==
    \E sel \in Selections :
        Invoke("calculate_summary_row", sel, calculate_summary_row(isin(combined_data, sel)))

AverageRowOfPeriod ==
    \E sel \in Selections :
        Invoke("calculate_average_row", sel, calculate_average_row(isin(combined_data, sel)))

SummaryRowRawOfPeriod ==
    \E sel \in Selections :
        Invoke("calculate_summary_row_raw", sel, calculate_summary_row_raw(isin(combined_data, sel)))

AverageRowRawOfPeriod ==
    \E sel \in Selections :
        Invoke("calculate_average_row_raw", sel, calculate_average_row_raw(isin(combined_data, sel)))

PeriodMetrics ==
    \E periods \in DisjointPeriods :
        Invoke("calculate_period_metrics", periods, calculate_period_metrics(combined_data, periods))

Lift ==
    \E periods \in DisjointPeriods :
        LET summaries_raw ==
                [n \in {x \in DOMAIN periods : periods[x] # {}} |->
                    calculate_average_row_raw(isin(combined_data, periods[n]))]
        IN  /\ periods["Discount"] # {}
            /\ Invoke("calculate_lift", periods, calculate_lift(summaries_raw))

NextEngine ==
    \/ DailyTable
    \/ SummaryRowOfPeriod
    \/ AverageRowOfPeriod
    \/ SummaryRowRawOfPeriod
    \/ AverageRowRawOfPeriod
    \/ PeriodMetrics
    \/ Lift

SpecEngine == InitEngine /\ [][NextEngine]_vars

----------------------------------------------------------------------------
(* Specification of period selections: calculate_summary_row_raw applied to  *)
(* the rows that lists of dates select, the lists as a multiselect returns   *)
(* them or with a date repeated                                              *)

\* a row taken once for each occurrence of its date in the list, in list order
RECURSIVE RowsPerOccurrence(_, _)
RowsPerOccurrence(df, dates) ==
    IF dates = <<>> THEN <<>>
    ELSE RowsOn(df, Head(dates)) \o RowsPerOccurrence(df, Tail(dates))

\* combined_data[combined_data['date'].isin(dates)], dates a list: the rows
\* whose date is among the values of the list
RowsIn(df, dates) == isin(df, Range(dates))

\* lists of at most MaxPicks dates of the table
DateLists == UNION { [1..n -> DatesOf(combined_data)] : n \in 1..MaxPicks }

SummariesOfSelections ==
    \E A \in DateLists, B \in DateLists :
        /\ Range(A) \cap Range(B) = {}
        /\ Call("calculate_summary_row_raw", [A |-> A, B |-> B],
                [A |-> calculate_summary_row_raw(RowsIn(combined_data, A)),
                 B |-> calculate_summary_row_raw(RowsIn(combined_data, B)),
                 AB |-> calculate_summary_row_raw(RowsIn(combined_data, A \o B)),
                 BA |-> calculate_summary_row_raw(RowsIn(combined_data, B \o A)),
                 AA |-> calculate_summary_row_raw(RowsIn(combined_data, A \o A))])

NextSelections == SummariesOfSelections

SpecSelections == InitEngine /\ [][NextSelections]_vars

----------------------------------------------------------------------------
(* Properties of the memoised pipeline (checked under SpecCache) *)

\* what ingestion and merge make of the bytes of the last call
OwnTable ==
    Pipeline(Bytes(session.fs.t), Bytes(session.fs.sp), Bytes(session.fs.sb), Bytes(session.fs.sd)).df

\* C1: the table process_files returns for a file-set is the ingestion+merge
\* result of that file-set's own bytes; an entry cached for one file-set is never
\* returned for a call whose bytes differ.
C1_CacheKeyedByBytes ==
    session.status = "ok" => combined_data = OwnTable

\* C2: a second call with byte-identical inputs and no cache clear in between
\* returns a result equal to the first call's and does not run ingestion again.
C2_IdempotentCaching ==
    (session.status = "ok" /\ session.repeat) =>
        /\ combined_data = session.prev
        /\ ~session.ran

C2_Witness ==
    /\ session.status = "ok"
    /\ session.repeat
    /\ ~session.ran
    /\ session.fs.t = "TransactionsA"
    /\ combined_data = OwnTable
    /\ Len(combined_data) = 2

FilesOf(fs) == {fs.t, fs.sp, fs.sb, fs.sd} \ {""}

\* C17: when a supplied source (the transaction export or a present SP / SB /
\* SD export) lacks a required column, the run fails with an error and returns
\* no table, even when every other source is valid; no partially ingested table
\* is returned or stored in the cache.
C17_SchemaErrorIsFatal ==
    /\ (/\ session.status \in {"ok", "error"}
        /\ \E name \in FilesOf(session.fs) : ~Bytes(name).columns_ok)
          => (session.status = "error" /\ combined_data = <<>>)
    /\ \A i \in DOMAIN cache :
          \E fs \in FileSets :
              /\ \A name \in FilesOf(fs) : Bytes(name).columns_ok
              /\ cache[i].value = Pipeline(Bytes(fs.t), Bytes(fs.sp), Bytes(fs.sb), Bytes(fs.sd)).df

\* C18: an upload of the transaction export with any subset, the empty one
\* included, of the three campaign exports is processed into a daily table.
C18_CampaignFilesOptional ==
    (/\ session.status # "idle"
     /\ session.fs.t # ""
     /\ \A name \in FilesOf(session.fs) : Bytes(name).columns_ok)
        => session.status = "ok"

----------------------------------------------------------------------------
(* Properties of the Merger (checked under SpecMerge) *)

InputDates == DatesOf(transaction_df) \cup DatesOf(campaign_df)

\* C3: combine_data, given aggregates with at most one row per date, returns
\* exactly one row for every date of either input, no row for another date, and
\* every row holds each of the 11 canonical columns with a non-null value.
C3_MergeCompleteness ==
    out.op = "combine_data" =>
        /\ \A d \in InputDates : Len(RowsOn(combined_data, d)) = 1
        /\ DatesOf(combined_data) \subseteq InputDates
        /\ \A i \in DOMAIN combined_data :
              /\ DOMAIN combined_data[i] = Range(expected_columns)
              /\ \A c \in DOMAIN combined_data[i] : combined_data[i][c] # <<>>

C3_Witness ==
    /\ out.op = "combine_data"
    /\ DatesOf(transaction_df) \ DatesOf(campaign_df) # {}
    /\ DatesOf(campaign_df) \ DatesOf(transaction_df) # {}
    /\ DatesOf(transaction_df) \cap DatesOf(campaign_df) # {}
    /\ Len(combined_data) = MaxDate

\* the cell of `col` an input frame holds for `date`, 0 if it has no row for it
InputCell(df, date, col) ==
    IF date \in DatesOf(df) THEN RowsOn(df, date)[1][col] ELSE <<0>>

\* C4: in the output of combine_data the fields owned by a side that has no row
\* for the date are 0 and the fields of a side that has the date equal that
\* input's values, in the outer join and when one input is entirely empty.
C4_MergeZeroFill ==
    out.op = "combine_data" =>
        \A i \in DOMAIN combined_data :
            LET r == combined_data[i] IN
            /\ \A c \in TransactionColumns \ {"date"} :
                  r[c] = InputCell(transaction_df, DateOf(r), c)
            /\ \A c \in CampaignColumns \ {"date"} :
                  r[c] = InputCell(campaign_df, DateOf(r), c)

C4_Witness ==
    /\ out.op = "combine_data"
    /\ transaction_df = <<>>
    /\ Len(campaign_df) > 1
    /\ \A i \in DOMAIN combined_data :
          combined_data[i]["orders"] = <<0>> /\ combined_data[i]["impressions"] # <<0>>

\* C21: combine_data called with both the transaction aggregates and the
\* campaign aggregates empty returns an empty table; it raises no error.
C21_BothEmptyGivesEmpty ==
    (out.op = "combine_data" /\ transaction_df = <<>> /\ campaign_df = <<>>)
        => combined_data = <<>>

C21_Witness ==
    /\ out.op = "combine_data"
    /\ transaction_df = <<>>
    /\ campaign_df = <<>>
    /\ combined_data = <<>>

----------------------------------------------------------------------------
(* Properties of the Metrics Engine (checked under SpecMetrics) *)

\* the dates of the selection that have a row in the daily table
Present(sel) == sel \cap DatesOf(combined_data)

\* the sum of the per-day values of a column over the selected dates
RECURSIVE DaySum(_, _)
DaySum(col, S) ==
    IF S = {} THEN 0
    ELSE LET d == CHOOSE x \in S : TRUE
         IN  RowsOn(combined_data, d)[1][col][1] + DaySum(col, S \ {d})

\* the table of derived-metric formulas: numerator, denominator, scale
NumeratorOf(m) ==
    CASE m = "CTR" -> "Clicks"
      [] m = "CVR" -> "Campaign Orders"
      [] m = "ROAS" -> "Campaign Sales"
      [] OTHER -> "Campaign Spend"

DenominatorOf(m) ==
    CASE m = "CTR" -> "Impressions"
      [] m = "CVR" -> "Clicks"
      [] m = "CPA" -> "Campaign Orders"
      [] m = "CPC" -> "Clicks"
      [] m = "ROAS" -> "Campaign Spend"
      [] m = "ACOS" -> "Campaign Sales"
      [] m = "TACOS" -> "Revenue"

ScaleOf(m) == IF m \in {"CTR", "CVR", "ACOS", "TACOS"} THEN 100 ELSE 1

\* text shows the non-negative rational a/b to p decimals: nearest digit string
Shows(text, a, b, p) ==
    /\ ~text.nan
    /\ 2 * Abs(text.mag * b - a * Pow10(p)) <= b

\* C5: a period summary returns for each base field the sum of the per-day
\* values of the selected rows and for each derived metric the formula applied
\* once to those sums (ratio of sums), in the raw and in the formatted row.
C5_RatioOfSums ==
    LET S(m) == DaySum(ColumnOf(m), Present(out.sel))
        N(m) == S(NumeratorOf(m)) * ScaleOf(m)
        D(m) == S(DenominatorOf(m))
    IN  /\ out.op = "calculate_summary_row_raw" =>
              /\ \A m \in BaseSet : out.res[m] = I(S(m))
              /\ \A m \in Range(DerivedMetrics) :
                    IF D(m) > 0 THEN out.res[m] = Num(N(m), D(m)) ELSE out.res[m] = I(0)
        /\ out.op = "calculate_summary_row" =>
              /\ \A m \in BaseSet :
                    /\ out.res[m].neg = (S(m) < 0)
                    /\ Shows(out.res[m], Abs(S(m)), 1, IF IsMoney(m) THEN 2 ELSE 0)
              /\ \A m \in Range(DerivedMetrics) :
                    IF D(m) > 0
                    THEN out.res[m] # NA /\ ~out.res[m].neg /\ Shows(out.res[m], N(m), D(m), 2)
                    ELSE out.res[m] = NA

\* two days whose CTRs are 0% and 100%: the summary is 1 click / 3 impressions
C5_Witness ==
    /\ out.op = "calculate_summary_row_raw"
    /\ Cardinality(Present(out.sel)) = 2
    /\ out.res["Impressions"] = I(3)
    /\ out.res["CTR"] = Num(100, 3)

\* C6: _calculate_derived_metrics returns each metric as the absent sentinel
\* exactly when its denominator is 0 and otherwise as the value of its formula;
\* with impressions > 0 and clicks = 0, CTR is the number 0 (0.00%) while CVR and
\* CPC are absent.
C6_DerivedMetricsSentinel ==
    out.op = "_calculate_derived_metrics" =>
        LET a == out.res.args
            r == out.res.ret
        IN  /\ \A m \in Range(DerivedMetrics) :
                  LET num == a[NumeratorOf(m)]
                      den == a[DenominatorOf(m)]
                  IN  /\ (r[m] = None) <=> (den = I(0))
                      /\ den # I(0) => r[m] = Num(num.n * den.d * ScaleOf(m), num.d * den.n)
            /\ (Gt0(a["Impressions"]) /\ a["Clicks"] = I(0)) =>
                  /\ r["CTR"] = I(0)
                  /\ FmtDerived("CTR", r["CTR"]) = [f |-> "pct", nan |-> FALSE, neg |-> FALSE, mag |-> 0]
                  /\ r["CVR"] = None
                  /\ r["CPC"] = None

C6_Witness ==
    /\ out.op = "_calculate_derived_metrics"
    /\ Gt0(out.res.args["Impressions"])
    /\ out.res.args["Clicks"] = I(0)
    /\ out.res.ret["CTR"] = I(0)
    /\ out.res.ret["CVR"] = None
    /\ out.res.ret["ROAS"] # None

\* C7: a period average divides the sum of every base field by the number of
\* distinct dates present in the filtered rows, not by the number requested.
C7_AverageDivisor ==
    out.op \in {"calculate_average_row", "calculate_average_row_raw"} =>
        LET S(m) == DaySum(ColumnOf(m), Present(out.sel))
            days == Cardinality(Present(out.sel))
        IN  days > 0 =>
                /\ out.op = "calculate_average_row_raw" =>
                      \A m \in BaseSet : out.res[m] = Num(S(m), days)
                /\ out.op = "calculate_average_row" =>
                      \A m \in BaseSet :
                          /\ out.res[m].neg = (S(m) < 0)
                          /\ Shows(out.res[m], Abs(S(m)), days,
                                   IF IsMoney(m) THEN 2 ELSE IF m = "Impressions" THEN 0 ELSE 1)

\* 3 dates requested, 2 of them in the table, 3 orders: 1.5 orders a day
C7_Witness ==
    /\ out.op = "calculate_average_row_raw"
    /\ Cardinality(out.sel) = 3
    /\ Cardinality(Present(out.sel)) = 2
    /\ out.res["Orders"] = Num(3, 2)

Rejected == [error |-> "EmptySelectionError"]

\* C8: a period average over a selection that matches no row of the daily table
\* is rejected with an error instead of returning a row computed with a divisor
\* of 0.
C8_EmptySelectionRejected ==
    (/\ out.op \in {"calculate_average_row", "calculate_average_row_raw"}
     /\ Present(out.sel) = {})
        => out.res = Rejected

\* text is the rendering of the number x to p decimals: "nan" for nan, else the
\* sign of x and the nearest digit string
Renders(text, x, p) ==
    IF IsNum(x) THEN text.neg = (x.n < 0) /\ Shows(text, Abs(x.n), x.d, p)
    ELSE text.nan

\* the formatted row F and the raw row R of the period `sel` are two shapes of
\* one computation; p(m) is the number of decimals of the base field m
SameComputation(F, R, sel, p(_)) ==
    /\ \A m \in BaseSet : F[m] # NA /\ Renders(F[m], R[m], p(m))
    /\ \A m \in Range(DerivedMetrics) :
          LET undefined == DaySum(ColumnOf(DenominatorOf(m)), Present(sel)) = 0
          IN  /\ (F[m] = NA) <=> undefined
              /\ undefined => R[m] = I(0)
              /\ ~undefined => Renders(F[m], R[m], 2)

SummaryDecimals(m) == IF IsMoney(m) THEN 2 ELSE 0
AverageDecimals(m) == IF IsMoney(m) THEN 2 ELSE IF m = "Impressions" THEN 0 ELSE 1

\* C14: for the same period data the formatted row and the raw row (summary and
\* average) are two shapes of one computation: each base field of the formatted
\* row renders the raw value, a derived metric is N/A in the formatted row
\* exactly when it is undefined, the raw row holds 0 for those metrics, and each
\* defined derived metric of the formatted row renders the raw value.
C14_FormattedAndRawAgree ==
    LET period_data == isin(combined_data, out.sel)
    IN  /\ out.op = "calculate_summary_row" =>
              SameComputation(out.res, calculate_summary_row_raw(period_data), out.sel, SummaryDecimals)
        /\ out.op = "calculate_summary_row_raw" =>
              SameComputation(calculate_summary_row(period_data), out.res, out.sel, SummaryDecimals)
        /\ out.op = "calculate_average_row" =>
              SameComputation(out.res, calculate_average_row_raw(period_data), out.sel, AverageDecimals)
        /\ out.op = "calculate_average_row_raw" =>
              SameComputation(calculate_average_row(period_data), out.res, out.sel, AverageDecimals)

\* the average of two campaign-only days: 1.5 impressions a day printed "2",
\* CTR 33.33%, TACOS undefined
C14_Witness ==
    /\ out.op = "calculate_average_row"
    /\ Cardinality(Present(out.sel)) = 2
    /\ out.res["TACOS"] = NA
    /\ out.res["CTR"] = [f |-> "pct", nan |-> FALSE, neg |-> FALSE, mag |-> 3333]
    /\ out.res["Impressions"].mag = 2
    /\ calculate_average_row_raw(isin(combined_data, out.sel))["TACOS"] = I(0)

\* the amount a formatted money cell shows, in cents
Cents(text) == IF text.neg THEN -text.mag ELSE text.mag

\* C19: every row of the merged daily table has net_revenue = revenue -
\* item_promotion_discount, the rows of dates that come only from campaign data
\* included, and every period summary has Net Revenue = Revenue -
\* Item-Promotion-Discount.
C19_NetRevenueIdentity ==
    /\ \A i \in DOMAIN combined_data :
          combined_data[i]["net_revenue"][1] =
              combined_data[i]["revenue"][1] - combined_data[i]["item_promotion_discount"][1]
    /\ out.op = "calculate_summary_row_raw" =>
          out.res["Net Revenue"] = Sub(out.res["Revenue"], out.res["Item-Promotion-Discount"])
    /\ out.op = "calculate_summary_row" =>
          Cents(out.res["Net Revenue"]) =
              Cents(out.res["Revenue"]) - Cents(out.res["Item-Promotion-Discount"])

\* a period of a campaign-only day and a day whose discount exceeds its revenue
C19_Witness ==
    /\ out.op = "calculate_summary_row"
    /\ Cardinality(Present(out.sel)) = 2
    /\ \E i \in DOMAIN combined_data :
          /\ DateOf(combined_data[i]) \in out.sel
          /\ DateOf(combined_data[i]) \notin DatesOf(transaction_df)
          /\ combined_data[i]["net_revenue"] = <<0>>
    /\ out.res["Revenue"] = [f |-> "usd", nan |-> FALSE, neg |-> FALSE, mag |-> 100]
    /\ out.res["Item-Promotion-Discount"] = [f |-> "usd", nan |-> FALSE, neg |-> FALSE, mag |-> 200]
    /\ out.res["Net Revenue"] = [f |-> "usd", nan |-> FALSE, neg |-> TRUE, mag |-> 100]

----------------------------------------------------------------------------
(* Properties of the lift (checked under SpecLift) *)

\* C9: for every metric field, the lift of comparison against baseline is
\* (comparison - baseline) / baseline * 100 (printed signed, to two decimals)
\* when baseline is non-zero and the marker N/A when baseline is 0, whatever the
\* comparison value.
C9_LiftFormula ==
    out.op = "_calculate_lift_column" =>
        \A m \in Metrics :
            LET b == out.res.baseline[m]
                c == out.res.comparison[m]
                P == (c.n * b.d - b.n * c.d) * 100      \* lift = P / Q
                Q == c.d * b.n
                v == out.res.ab[m]
            IN  IF b.n = 0 THEN v = NA
                ELSE /\ v.f = "lift"
                     /\ Shows(v, Abs(P), Abs(Q), 2)
                     /\ P * Q < 0 => v.neg
                     /\ P * Q > 0 => ~v.neg

C9_Witness ==
    /\ out.op = "_calculate_lift_column"
    /\ out.res.baseline["Clicks"] = I(0)
    /\ out.res.comparison["Clicks"] # I(0)
    /\ out.res.ab["Clicks"] = NA
    /\ out.res.ab["Revenue"] = [f |-> "lift", nan |-> FALSE, neg |-> TRUE, mag |-> 5000]

\* the sign a printed lift shows: 0 for +-0.00%
SignOf(v) == IF v.mag = 0 THEN 0 ELSE IF v.neg THEN -1 ELSE 1

BothDefined(m) == out.res.ab[m] # NA /\ out.res.ba[m] # NA

\* C10: for any two period records and any metric field for which lift(A, B)
\* and lift(B, A) are both defined, the sign of lift(A, B) is opposite to the
\* sign of lift(B, A).
C10_LiftSignOpposite ==
    out.op = "_calculate_lift_column" =>
        \A m \in Metrics :
            BothDefined(m) => SignOf(out.res.ab[m]) = -SignOf(out.res.ba[m])

\* C10 as it holds: where both lifts are defined, their signs are opposite when
\* the two values have the same sign (both lifts are 0 when the values are
\* equal), and both lifts are negative when the values have opposite signs, as
\* Net Revenue can.
C10_LiftSignBySign ==
    out.op = "_calculate_lift_column" =>
        \A m \in Metrics :
            LET a == out.res.baseline[m]
                b == out.res.comparison[m]
            IN  BothDefined(m) =>
                    /\ a.n # 0 /\ b.n # 0
                    /\ (a.n * b.n > 0) => SignOf(out.res.ab[m]) = -SignOf(out.res.ba[m])
                    /\ a = b => SignOf(out.res.ab[m]) = 0
                    /\ (a.n * b.n > 0 /\ a # b) => SignOf(out.res.ab[m]) # 0
                    /\ (a.n * b.n < 0) => SignOf(out.res.ab[m]) = -1 /\ SignOf(out.res.ba[m]) = -1

C10_Witness ==
    /\ out.op = "_calculate_lift_column"
    /\ Lt0(out.res.baseline["Net Revenue"])
    /\ Gt0(out.res.comparison["Net Revenue"])
    /\ out.res.ab["Net Revenue"].neg
    /\ out.res.ba["Net Revenue"].neg
    /\ SignOf(out.res.ab["Revenue"]) = 1
    /\ SignOf(out.res.ba["Revenue"]) = -1

\* the derived metrics of the averages of a period, before the raw row is built
PeriodDerived(sel) ==
    LET period_data == isin(combined_data, sel)
    IN  DerivedOf(Totals(period_data, NumDays(period_data)))

\* C11: an undefined derived metric reaches the lift computation as the absent
\* sentinel, never as the number 0: when a derived metric is undefined for the
\* comparison period and defined and non-zero for the baseline period, the lift
\* of that metric is the marker N/A, not a numeric percentage such as -100.00%.
C11_SentinelReachesLift ==
    out.op = "_calculate_lift_column" =>
        \A m \in Range(DerivedMetrics) :
            LET b == PeriodDerived(out.sel[1])[m]
                c == PeriodDerived(out.sel[2])[m]
            IN  /\ c = None => out.res.comparison[m] # I(0)
                /\ (c = None /\ b # None /\ b # I(0)) => out.res.ab[m] = NA

----------------------------------------------------------------------------
(* Properties of the rendered report (checked under SpecAnalysis) *)

\* the text of the number 0 as a percentage
ZeroPct == [f |-> "pct", nan |-> FALSE, neg |-> FALSE, mag |-> 0]

\* C12: where campaign_spend is 0 for a day, or summed over a period, ROAS (and
\* CPA when campaign_orders is 0 too) is the marker N/A in the daily table, in
\* the formatted summary and in the formatted average, and the ROAS lift with
\* that period as baseline is N/A: never a number, never infinity.
C12_ZeroSpendRoasAbsent ==
    out.op = "main" =>
        /\ \A d \in DOMAIN out.res.daily_table.col :
              DaySum("campaign_spend", {d}) = 0 =>
                  /\ out.res.daily_table.col[d]["ROAS"] = NA
                  /\ DaySum("campaign_orders", {d}) = 0 => out.res.daily_table.col[d]["CPA"] = NA
        /\ \A i \in DOMAIN out.sel :
              LET dates == out.sel[i]
                  T == out.res.tables[i]
                  no_orders == DaySum("campaign_orders", dates) = 0
              IN  /\ \A d \in dates : T.days[d] = out.res.daily_table.col[d]
                  /\ DaySum("campaign_spend", dates) = 0 =>
                        /\ T.TOTAL["ROAS"] = NA
                        /\ T.AVERAGE["ROAS"] = NA
                        /\ no_orders => (T.TOTAL["CPA"] = NA /\ T.AVERAGE["CPA"] = NA)
                        /\ (i = 1 /\ out.res.lift # <<>>) => out.res.lift[1]["ROAS"] = NA

\* a Lead In day without spend but with sales, compared with a day that has spend
C12_Witness ==
    /\ out.op = "main"
    /\ Len(out.sel) = 2
    /\ DaySum("campaign_spend", out.sel[1]) = 0
    /\ DaySum("campaign_sales", out.sel[1]) > 0
    /\ DaySum("campaign_spend", out.sel[2]) > 0
    /\ out.res.tables[1].TOTAL["ROAS"] = NA
    /\ out.res.tables[1].AVERAGE["ROAS"] = NA
    /\ out.res.lift[1]["ROAS"] = NA
    /\ out.res.lift[1]["Campaign Sales"] # NA

\* C13: where campaign_spend is 0 for a day, or summed over a period, ACOS is
\* the marker N/A in the daily table, the summary and the average, never 0.00%,
\* also when campaign_sales of that day or period is greater than 0.
C13_ZeroSpendAcosAbsent ==
    out.op = "main" =>
        /\ \A d \in DOMAIN out.res.daily_table.col :
              DaySum("campaign_spend", {d}) = 0 => out.res.daily_table.col[d]["ACOS"] = NA
        /\ \A i \in DOMAIN out.sel :
              DaySum("campaign_spend", out.sel[i]) = 0 =>
                  /\ out.res.tables[i].TOTAL["ACOS"] = NA
                  /\ out.res.tables[i].AVERAGE["ACOS"] = NA

\* C13 as it holds: where campaign_spend is 0 for a day, or summed over a
\* period, ACOS is the marker N/A in the daily table, the summary and the
\* average exactly when campaign_sales is 0 as well; when campaign_sales is
\* greater than 0 it is the number 0, printed 0.00%.
C13_ZeroSpendAcosBySales ==
    out.op = "main" =>
        LET Acos(text, sales) == IF sales = 0 THEN text = NA ELSE text = ZeroPct
        IN  /\ \A d \in DOMAIN out.res.daily_table.col :
                  DaySum("campaign_spend", {d}) = 0 =>
                      Acos(out.res.daily_table.col[d]["ACOS"], DaySum("campaign_sales", {d}))
            /\ \A i \in DOMAIN out.sel :
                  DaySum("campaign_spend", out.sel[i]) = 0 =>
                      /\ Acos(out.res.tables[i].TOTAL["ACOS"], DaySum("campaign_sales", out.sel[i]))
                      /\ Acos(out.res.tables[i].AVERAGE["ACOS"], DaySum("campaign_sales", out.sel[i]))

\* a two-day period without spend: one day without campaign data, one with sales
C13_Witness ==
    /\ out.op = "main"
    /\ Cardinality(out.sel[1]) = 2
    /\ DaySum("campaign_spend", out.sel[1]) = 0
    /\ DaySum("campaign_sales", out.sel[1]) > 0
    /\ \E d \in out.sel[1] : out.res.daily_table.col[d]["ACOS"] = NA
    /\ \E d \in out.sel[1] : out.res.daily_table.col[d]["ACOS"] = ZeroPct
    /\ out.res.tables[1].TOTAL["ACOS"] = ZeroPct
    /\ out.res.tables[1].AVERAGE["ACOS"] = ZeroPct

----------------------------------------------------------------------------
(* Properties of the transaction ingestor (checked under SpecIngest) *)

\* the rows of the export that pass both filters and carry the date d
Counted(d) ==
    LET rows == session.transaction_bytes.rows
    IN  {i \in DOMAIN rows : /\ rows[i]["sales-channel"] = "Amazon.com"
                             /\ rows[i]["order-status"] = "Shipped"
                             /\ rows[i]["purchase-date"] = <<d>>}

\* the sum of a column over rows of the export, a blank cell counted as 0
RECURSIVE RowsSum(_, _)
RowsSum(col, S) ==
    IF S = {} THEN 0
    ELSE LET i == CHOOSE x \in S : TRUE
             cell == session.transaction_bytes.rows[i][col]
         IN  (IF cell = <<>> THEN 0 ELSE cell[1]) + RowsSum(col, S \ {i})

\* C16: process_transaction_data returns one row for each date that has a
\* shipped Amazon.com order, with orders = the number of such rows of the date,
\* total_units / revenue / item_promotion_discount = the sums of their quantity /
\* item-price / item-promotion-discount, a blank cell counted as 0; rows that
\* fail a filter or have no date contribute nothing and raise no error.
C16_TransactionAggregates ==
    out.op = "process_transaction_data" =>
        /\ out.ok
        /\ DatesOf(transaction_df) = {d \in Dates : Counted(d) # {}}
        /\ \A d \in DatesOf(transaction_df) : Len(RowsOn(transaction_df, d)) = 1
        /\ \A i \in DOMAIN transaction_df :
              LET r == transaction_df[i]
                  S == Counted(DateOf(r))
              IN  /\ r["orders"] = <<Cardinality(S)>>
                  /\ r["total_units"] = <<RowsSum("quantity", S)>>
                  /\ r["revenue"] = <<RowsSum("item-price", S)>>
                  /\ r["item_promotion_discount"] = <<RowsSum("item-promotion-discount", S)>>

\* two shipped orders (2 units at 20, 1 unit at 15) and a cancelled one on day 1
C16_Witness ==
    /\ out.op = "process_transaction_data"
    /\ session.transaction_bytes.rows =
          << TRow("Amazon.com", "Shipped", <<1>>, <<2>>, <<20>>, <<0>>),
             TRow("Amazon.com", "Cancelled", <<1>>, <<1>>, <<9>>, <<0>>),
             TRow("Amazon.com", "Shipped", <<1>>, <<1>>, <<15>>, <<0>>) >>
    /\ Len(transaction_df) = 1
    /\ transaction_df[1]["orders"] = <<2>>
    /\ transaction_df[1]["total_units"] = <<3>>
    /\ transaction_df[1]["revenue"] = <<35>>
    /\ transaction_df[1]["item_promotion_discount"] = <<0>>
    /\ transaction_df[1]["net_revenue"] = <<35>>

----------------------------------------------------------------------------
(* Properties of the Metrics Engine at work (checked under SpecEngine) *)

\* C20: no operation of the Metrics Engine (calculate_daily_table, the summary
\* and average rows and their raw variants, calculate_period_metrics,
\* calculate_lift) changes the daily table it is given: after any sequence of
\* operations the table's rows and values are those before the first call.
C20_TableNeverMutated ==
    combined_data = combine_data(transaction_df, campaign_df)

\* the lift computed as the last of MaxCalls operations on a three-day table
C20_Witness ==
    /\ out.op = "calculate_lift"
    /\ session.calls = MaxCalls
    /\ Len(combined_data) = 3
    /\ "Discount -> Lead In" \in DOMAIN out.res
    /\ combined_data = combine_data(transaction_df, campaign_df)

\* C22: a transaction row whose purchase-date cannot be parsed is left out of
\* the result without an error: the call succeeds and returns the aggregates it
\* returns for the same export with those rows removed.
C22_UndatedRowsDropped ==
    out.op = "process_transaction_data" =>
        LET rows == session.transaction_bytes.rows
            dated == SelectSeq(rows, LAMBDA r : r["purchase-date"] # <<>>)
        IN  /\ out.ok
            /\ transaction_df = process_transaction_data(Sheet(dated)).df
            /\ \A i \in DOMAIN transaction_df :
                   transaction_df[i]["orders"][1] = Cardinality(Counted(DateOf(transaction_df[i])))

C22_Witness ==
    /\ out.op = "process_transaction_data"
    /\ out.ok
    /\ transaction_df # <<>>
    /\ \E i \in DOMAIN session.transaction_bytes.rows :
           LET r == session.transaction_bytes.rows[i]
           IN  /\ r["purchase-date"] = <<>>
               /\ r["sales-channel"] = "Amazon.com"
               /\ r["order-status"] = "Shipped"

\* C28 as stated: for a period of exactly one date the TOTAL column shows for
\* every metric the value of that date's column of the daily table, the base
\* fields whose value is 0 included.
C28_SingleDateTotalIsDayColumn ==
    out.op = "main" =>
        \A i \in DOMAIN out.sel :
            \A d \in out.sel[i] :
                out.sel[i] = {d} =>
                    \A m \in Metrics : out.res.tables[i].TOTAL[m] = out.res.tables[i].days[d][m]

\* C28: for a period of exactly one date the TOTAL column shows the value of
\* that date's column of the daily table for every derived metric and for every
\* base field whose value is not 0; a base field whose value is 0 is N/A in the
\* date's column and the number 0 (0 or $0.00) in the TOTAL column.
C28_SingleDateTotalButZeros ==
    out.op = "main" =>
        \A i \in DOMAIN out.sel :
            \A d \in out.sel[i] :
                out.sel[i] = {d} =>
                    LET T == out.res.tables[i]
                    IN  \A m \in Metrics :
                            IF m \in BaseSet /\ DaySum(ColumnOf(m), {d}) = 0
                            THEN /\ T.days[d][m] = NA
                                 /\ T.TOTAL[m] = (IF IsMoney(m) THEN Fixed("usd", I(0), 2)
                                                  ELSE FmtInt(I(0)))
                                 /\ T.TOTAL[m] # NA
                            ELSE T.TOTAL[m] = T.days[d][m]

\* a Lead In period of one day with impressions and spend but no order
C28_Witness ==
    /\ out.op = "main"
    /\ \E d \in out.sel[1] :
           /\ out.sel[1] = {d}
           /\ DaySum("orders", {d}) = 0
           /\ DaySum("impressions", {d}) > 0
           /\ out.res.tables[1].days[d]["Orders"] = NA
           /\ out.res.tables[1].TOTAL["Orders"] = FmtInt(I(0))
           /\ out.res.tables[1].TOTAL["Impressions"] = out.res.tables[1].days[d]["Impressions"]
           /\ out.res.tables[1].TOTAL["Impressions"] # NA

----------------------------------------------------------------------------
(* Further properties of the Metrics Engine (checked under SpecMetrics) *)

----------------------------------------------------------------------------
(* Properties of the campaign ingestor (checked under SpecCampaign) *)

\* the rows of the reports given to process_campaign_data, each with the name
\* of its orders and sales column
SourceRows ==
    LET of(bytes, window) ==
            IF bytes = <<>> THEN <<>>
            ELSE [i \in DOMAIN bytes.rows |-> [row |-> bytes.rows[i], window |-> window]]
    IN  of(session.sp_bytes, 7) \o of(session.sb_bytes, 14) \o of(session.sd_bytes, 14)

\* the day a Date value of the reports names: 1 is 1899-12-31, 2 is 1900-01-01
\* and 3 is 1900-01-02; 0 if it names none
DayNamed(cell) ==
    IF cell = <<>> THEN 0
    ELSE CASE cell[1].kind = "serial" -> cell[1].day
           [] cell[1].kind = "text" ->
                  (CASE cell[1].date = [year |-> 1899, month |-> 12, day |-> 31] -> 1
                     [] cell[1].date = [year |-> 1900, month |-> 1, day |-> 1] -> 2
                     [] cell[1].date = [year |-> 1900, month |-> 1, day |-> 2] -> 3)
           [] OTHER -> 0

\* the sum of a report column over the given rows of the reports
RECURSIVE SourceSum(_, _)
SourceSum(col, S) ==
    IF S = {} THEN 0
    ELSE LET i == CHOOSE x \in S : TRUE
             r == SourceRows[i]
             name == CASE col = "impressions" -> "Impressions"
                       [] col = "clicks" -> "Clicks"
                       [] col = "campaign_spend" -> "Spend"
                       [] col = "campaign_orders" ->
                              (IF r.window = 7 THEN "7 Day Total Orders (#)" ELSE "14 Day Total Orders (#)")
                       [] col = "campaign_sales" ->
                              (IF r.window = 7 THEN "7 Day Total Sales " ELSE "14 Day Total Sales ")
         IN  r.row[name][1] + SourceSum(col, S \ {i})

\* C23: a campaign row whose Date cannot be converted (blank, or a text that is
\* no date) is left out and does not abort process_campaign_data: the call
\* succeeds and returns the aggregates of the remaining rows.
C23_BadCampaignDateAbsorbed ==
    out.op = "process_campaign_data" =>
        LET good == {i \in DOMAIN SourceRows : DayNamed(SourceRows[i].row["Date"]) # 0}
        IN  /\ out.ok
            /\ DatesOf(campaign_df) = {DayNamed(SourceRows[i].row["Date"]) : i \in good}
            /\ \A k \in DOMAIN campaign_df :
                   campaign_df[k]["impressions"] =
                       <<SourceSum("impressions",
                                   {i \in good : DayNamed(SourceRows[i].row["Date"]) = DateOf(campaign_df[k])})>>

\* C24: process_campaign_data returns exactly one row for each date that occurs
\* in a present report, and each of impressions, clicks, campaign_spend,
\* campaign_orders and campaign_sales of the row is the sum of the column over
\* the rows of all present reports of that date; an absent report adds nothing
\* and with no report present the result is the empty table.
C24_CampaignAggregates ==
    (out.op = "process_campaign_data" /\ out.ok) =>
        LET on(d) == {i \in DOMAIN SourceRows : DayNamed(SourceRows[i].row["Date"]) = d}
        IN  /\ DatesOf(campaign_df) = {DayNamed(SourceRows[i].row["Date"]) : i \in DOMAIN SourceRows}
            /\ \A d \in DatesOf(campaign_df) : Len(RowsOn(campaign_df, d)) = 1
            /\ \A k \in DOMAIN campaign_df :
                   \A col \in CampaignColumns \ {"date"} :
                       campaign_df[k][col] = <<SourceSum(col, on(DateOf(campaign_df[k])))>>
            /\ (session.sp_bytes = <<>> /\ session.sb_bytes = <<>> /\ session.sd_bytes = <<>>)
                   => campaign_df = <<>>

\* day 1 in the SP report (7-day columns) and in the SD report (14-day
\* columns), the SB report absent
C24_Witness ==
    /\ out.op = "process_campaign_data"
    /\ out.ok
    /\ session.sb_bytes = <<>>
    /\ session.sp_bytes # <<>>
    /\ session.sd_bytes # <<>>
    /\ \E k \in DOMAIN campaign_df :
           /\ campaign_df[k]["date"] = <<1>>
           /\ campaign_df[k]["impressions"] = <<1040>>
           /\ campaign_df[k]["campaign_sales"] = <<6>>

\* C26: a numeric Date s is decoded as 1899-12-30 plus s days (the date held
\* as s), so that the serials s and s + 1 give consecutive days; any other Date
\* is the date its text parses to (1899-12-31 held as 1, 1900-01-01 as 2,
\* 1900-01-02 as 3); and rows whose Dates are a serial and a text of the same
\* day are summed into one row of the result.
C26_SerialAndTextDates ==
    /\ (out.op = "_convert_excel_date_vectorized" /\ out.ok) =>
           \A i \in DOMAIN out.date_series :
               LET cell == out.date_series[i][1]
               IN  /\ cell.kind = "serial" =>
                          /\ out.dates[i] = cell.day
                          /\ \A j \in DOMAIN out.date_series :
                                 LET other == out.date_series[j][1]
                                 IN  (other.kind = "serial" /\ other.day = cell.day + 1)
                                         => out.dates[j] = out.dates[i] + 1
                   /\ cell.kind = "text" => out.dates[i] = DayNamed(<<cell>>)
    /\ (out.op = "process_campaign_data" /\ out.ok) =>
           \A i, j \in DOMAIN SourceRows :
               LET a == SourceRows[i].row["Date"][1]
                   b == SourceRows[j].row["Date"][1]
               IN  (a.kind = "serial" /\ b.kind = "text" /\ DayNamed(<<a>>) = DayNamed(<<b>>)) =>
                       \E k \in DOMAIN campaign_df :
                           /\ \A l \in DOMAIN campaign_df :
                                  DateOf(campaign_df[l]) = DateOf(campaign_df[k]) => l = k
                           /\ campaign_df[k]["impressions"] =
                                  <<SourceSum("impressions",
                                              {x \in DOMAIN SourceRows :
                                                   DayNamed(SourceRows[x].row["Date"]) = DayNamed(<<a>>)})>>
                           /\ campaign_df[k]["impressions"][1] >=
                                  SourceRows[i].row["Impressions"][1] + SourceRows[j].row["Impressions"][1]

\* the SP report holds serial 1 and the text 1899-12-31: one row of 1200
\* impressions
C26_Witness ==
    /\ out.op = "process_campaign_data"
    /\ out.ok
    /\ session.sp_bytes # <<>>
    /\ session.sb_bytes = <<>>
    /\ session.sd_bytes = <<>>
    /\ Len(campaign_df) = 1
    /\ campaign_df[1]["impressions"] = <<1200>>

----------------------------------------------------------------------------
(* Properties of the daily table (checked under SpecAnalysis) *)

\* C25: calculate_daily_table gives exactly one column for each distinct date
\* of the daily table, the columns in ascending date order, and the column of a
\* date is made from that date's row alone: it is the column the table holding
\* only that row gets, whatever the other rows are (per day, not cumulative).
C25_DailyColumnsPerDate ==
    out.op = "main" =>
        LET T == out.res.daily_table
        IN  /\ {T.columns[i] : i \in DOMAIN T.columns} = DatesOf(combined_data)
            /\ \A i, j \in DOMAIN T.columns : i < j => T.columns[i] < T.columns[j]
            /\ DOMAIN T.col = DatesOf(combined_data)
            /\ \A i \in DOMAIN combined_data :
                   LET d == DateOf(combined_data[i])
                   IN  T.col[d] = calculate_daily_table(<<combined_data[i]>>).col[d]

\* a table of two days with sales on both: two columns, the second not holding
\* the sum of both days
C25_Witness ==
    /\ out.op = "main"
    /\ Len(combined_data) = 2
    /\ out.res.daily_table.columns = <<DateOf(combined_data[1]), DateOf(combined_data[2])>>
    /\ \A i \in DOMAIN combined_data : combined_data[i]["revenue"][1] > 0
    /\ out.res.daily_table.col[DateOf(combined_data[2])]["Revenue"]
           = Fixed("usd", I(combined_data[2]["revenue"][1]), 2)

----------------------------------------------------------------------------
(* Properties of the pipeline (checked under SpecPipeline) *)

\* C29: ingestion and merge conserve the totals.  Summed over the rows of the
\* merged daily table, orders is the number of transaction rows that pass the
\* channel and status filters and have a date, and total_units, revenue and
\* item_promotion_discount are the sums of their quantity, item-price and
\* item-promotion-discount; impressions, clicks, campaign_spend,
\* campaign_orders and campaign_sales are the sums over all rows of all present
\* campaign reports.  Nothing is lost or counted twice.
C29_TotalsConserved ==
    (out.op = "process_files" /\ out.ok) =>
        LET rows == session.transaction_bytes.rows
            kept == {i \in DOMAIN rows : /\ rows[i]["sales-channel"] = "Amazon.com"
                                         /\ rows[i]["order-status"] = "Shipped"
                                         /\ rows[i]["purchase-date"] # <<>>}
        IN  /\ ColSum(combined_data, "orders") = Cardinality(kept)
            /\ ColSum(combined_data, "total_units") = RowsSum("quantity", kept)
            /\ ColSum(combined_data, "revenue") = RowsSum("item-price", kept)
            /\ ColSum(combined_data, "item_promotion_discount")
                   = RowsSum("item-promotion-discount", kept)
            /\ \A col \in CampaignColumns \ {"date"} :
                   ColSum(combined_data, col) = SourceSum(col, DOMAIN SourceRows)
            /\ \A d \in DatesOf(combined_data) : Len(RowsOn(combined_data, d)) = 1

\* two orders on one day, SP and SB reports that share day 1, and a day with
\* campaign rows only
C29_Witness ==
    /\ out.op = "process_files"
    /\ out.ok
    /\ session.sp_bytes # <<>>
    /\ session.sb_bytes # <<>>
    /\ Cardinality(DatesOf(transaction_df)) = 1
    /\ DatesOf(campaign_df) \ DatesOf(transaction_df) # {}
    /\ ColSum(combined_data, "orders") = 2
    /\ ColSum(combined_data, "impressions") > 1200

----------------------------------------------------------------------------
(* Properties of period selections (checked under SpecSelections) *)

\* C30: for two disjoint date selections A and B over a daily table of unique
\* dates, every base field of calculate_summary_row_raw over A and B together
\* is the sum of the field in the summaries over A and over B; and neither the
\* order of the dates in a selection nor a date given twice changes a summary.
C30_SummaryAdditive ==
    out.op = "calculate_summary_row_raw" =>
        /\ \A m \in BaseSet :
               /\ out.res.AB[m] = Add(out.res.A[m], out.res.B[m])
               /\ out.res.AB[m] = I(DaySum(ColumnOf(m), Range(out.sel.A) \cup Range(out.sel.B)))
        /\ out.res.BA = out.res.AB
        /\ out.res.AA = out.res.A

\* A holds a date twice, and both selections have impressions
C30_Witness ==
    /\ out.op = "calculate_summary_row_raw"
    /\ Len(out.sel.A) = 2
    /\ out.sel.A[1] = out.sel.A[2]
    /\ Gt0(out.res.A["Impressions"])
    /\ Gt0(out.res.B["Impressions"])
    /\ out.res.AB["Impressions"] = Add(out.res.A["Impressions"], out.res.B["Impressions"])
    /\ out.res.AA["Impressions"] = out.res.A["Impressions"]

====
